---- MODULE Spec2Model ----
(***************************************************************************)
(* Post-register-allocation lowering of Perm nodes and the constraint      *)
(* assurance pass of libfirm's backend (ir/be/belower.c), modelled on one  *)
(* scheduled basic block of an IR graph.                                   *)
(*                                                                         *)
(* A node is a record; the graph is the sequence irn of all nodes, a node  *)
(* being named by its index.  Node 0 is the block, which is also the head  *)
(* of the (circular) schedule list: sched_prev of the first scheduled node *)
(* is the block.                                                           *)
(***************************************************************************)
EXTENDS Integers, Sequences, FiniteSets, TLC

\* ------------------------------------------------------------------ bounds
NRegs == 5
MaxArity == 3
MaskBits == 2

Regs == 1..NRegs
Block == 0
NoReg == 0
NoNode == 0

\* --------------------------------------------------------------- IR kernel
\* The fields of a node that belower.c reads or writes.
Nd == [op |-> "Op", mode |-> "data", ins |-> <<>>, reg |-> NoReg, pn |-> 0,
       cls |-> "gp", flags |-> {}, req |-> {"normal"}, od |-> 0, os |-> 0]

Max(a, b) == IF a > b THEN a ELSE b

SeqSet(s) == {s[i] : i \in 1..Len(s)}

\* mode_is_data: integer, float and reference modes; not T, M, X, ANY, b.
mode_is_data(g, n) == g[n].mode = "data"

\* mode_is_datab: data modes and the internal boolean mode.
mode_is_datab(g, n) == g[n].mode \in {"data", "b"}

skip_Proj(g, n) == IF n # Block /\ g[n].op = "Proj" THEN g[n].ins[1] ELSE n

\* The users of n: the sources of n's out edges.
Users(g, n) ==
    {m \in 1..Len(g) : g[m].op # "Deleted" /\ \E i \in 1..Len(g[m].ins) : g[m].ins[i] = n}

\* The order in which foreach_out_edge enumerates users is not fixed by
\* belower.c: eo lists the nodes in enumeration order, nodes it does not
\* name follow in order of creation.
EdgeKey(eo, m) ==
    IF \E i \in 1..Len(eo) : eo[i] = m
    THEN CHOOSE i \in 1..Len(eo) : eo[i] = m
    ELSE Len(eo) + m

RECURSIVE SortByKey(_, _)
SortByKey(eo, S) ==
    IF S = {} THEN <<>>
    ELSE LET m == CHOOSE x \in S : \A y \in S : EdgeKey(eo, x) <= EdgeKey(eo, y)
         IN  <<m>> \o SortByKey(eo, S \ {m})

OutEdges(g, eo, n) == SortByKey(eo, Users(g, n))

get_irn_n_edges(g, n) == Cardinality(Users(g, n))

\* exchange(old, nw): every user of old now reads nw, old is deleted and
\* leaves the out edges of its own operands.
exchange(g, old, nw) ==
    [m \in 1..Len(g) |->
        IF m = old THEN [g[m] EXCEPT !.op = "Deleted", !.ins = <<>>]
        ELSE [g[m] EXCEPT !.ins = [i \in 1..Len(g[m].ins) |->
                                     IF g[m].ins[i] = old THEN nw ELSE g[m].ins[i]]]]

kill_node(g, n) == [g EXCEPT ![n].op = "Deleted", ![n].ins = <<>>]

\* ---------------------------------------------------------------- schedule
sched_is_scheduled(s, n) == \E i \in 1..Len(s) : s[i] = n

SchedPos(s, n) == IF n = Block THEN 0 ELSE CHOOSE i \in 1..Len(s) : s[i] = n

sched_prev(s, n) == IF SchedPos(s, n) = 1 THEN Block ELSE s[SchedPos(s, n) - 1]

sched_next(s, n) == IF SchedPos(s, n) = Len(s) THEN Block ELSE s[SchedPos(s, n) + 1]

sched_add_after(s, p, n) ==
    LET k == SchedPos(s, p)
    IN  SubSeq(s, 1, k) \o <<n>> \o SubSeq(s, k + 1, Len(s))

sched_add_before(s, p, n) ==
    LET k == IF p = Block THEN Len(s) + 1 ELSE SchedPos(s, p)
    IN  SubSeq(s, 1, k - 1) \o <<n>> \o SubSeq(s, k, Len(s))

sched_remove(s, n) == SelectSeq(s, LAMBDA x : x # n)

\* sched_comes_after(n1, n2): n1 is in front of n2 in the schedule.
sched_comes_after(s, n1, n2) == SchedPos(s, n1) < SchedPos(s, n2)

\* ------------------------------------------------------ register pair list
\* reg_pair_t
Pair(in_reg, in_node, out_reg, out_node) ==
    [in_reg |-> in_reg, in_node |-> in_node, out_reg |-> out_reg,
     out_node |-> out_node, checked |-> FALSE]

get_n_unchecked_pairs(pairs) ==
    Cardinality({i \in 1..Len(pairs) : ~pairs[i].checked})

\* Index of the first pair whose in (out) register is reg, 0 if none
\* (the C functions return -1).
get_pairidx_for_in_regidx(pairs, reg) ==
    IF \E i \in 1..Len(pairs) : pairs[i].in_reg = reg
    THEN CHOOSE i \in 1..Len(pairs) :
            /\ pairs[i].in_reg = reg
            /\ \A j \in 1..(i - 1) : pairs[j].in_reg # reg
    ELSE 0

get_pairidx_for_out_regidx(pairs, reg) ==
    IF \E i \in 1..Len(pairs) : pairs[i].out_reg = reg
    THEN CHOOSE i \in 1..Len(pairs) :
            /\ pairs[i].out_reg = reg
            /\ \A j \in 1..(i - 1) : pairs[j].out_reg # reg
    ELSE 0

get_node_for_in_register(pairs, reg) ==
    IF get_pairidx_for_in_regidx(pairs, reg) = 0 THEN NoNode
    ELSE pairs[get_pairidx_for_in_regidx(pairs, reg)].in_node

get_node_for_out_register(pairs, reg) ==
    IF get_pairidx_for_out_regidx(pairs, reg) = 0 THEN NoNode
    ELSE pairs[get_pairidx_for_out_regidx(pairs, reg)].out_node

\* Faulty variant of FindMoveStart: a walk that finds no pair writing head
\* does not tag the Move as a chain.
RECURSIVE FindMoveStartNoChain(_, _, _, _, _)
FindMoveStartNoChain(pairs, head, cur_idx, start, fuel) ==
    IF head = cur_idx
    THEN [head |-> head, start |-> start, type |-> "CYCLE", ok |-> TRUE]
    ELSE IF fuel = 0
    THEN [head |-> head, start |-> start, type |-> "CYCLE", ok |-> FALSE]
    ELSE LET cur_pair_idx == get_pairidx_for_out_regidx(pairs, head)
         IN  IF cur_pair_idx = 0
             THEN [head |-> head, start |-> start, type |-> "CYCLE", ok |-> TRUE]
             ELSE FindMoveStartNoChain(pairs, pairs[cur_pair_idx].in_reg, cur_idx,
                                       cur_pair_idx, fuel - 1)

\* ------------------------------------------------------------- decomposer
\* First loop of get_perm_move_info: walk back from pair start to the pair a
\* chain starts with, or once around a cycle.  fuel counts the iterations
\* left: the loop's state is head alone, so a walk of more than Len(pairs)
\* iterations repeats a state and never ends (ok = FALSE).
RECURSIVE FindMoveStart(_, _, _, _, _)
FindMoveStart(pairs, head, cur_idx, start, fuel) ==
    IF head = cur_idx
    THEN [head |-> head, start |-> start, type |-> "CYCLE", ok |-> TRUE]
    ELSE IF fuel = 0
    THEN [head |-> head, start |-> start, type |-> "CYCLE", ok |-> FALSE]
    ELSE LET cur_pair_idx == get_pairidx_for_out_regidx(pairs, head)
         IN  IF cur_pair_idx = 0
             THEN [head |-> head, start |-> start, type |-> "CHAIN", ok |-> TRUE]
             ELSE FindMoveStart(pairs, pairs[cur_pair_idx].in_reg, cur_idx,
                                cur_pair_idx, fuel - 1)

\* Second loop: collect the registers up to the end of the chain or until
\* the walk is back at head.
RECURSIVE CollectMove(_, _, _, _, _, _)
CollectMove(pairs, head, cur_idx, elems, type, fuel) ==
    IF cur_idx = head
    THEN [elems |-> elems, type |-> type, ok |-> TRUE]
    ELSE IF fuel = 0
    THEN [elems |-> elems, type |-> type, ok |-> FALSE]
    ELSE LET cur_pair_idx == get_pairidx_for_in_regidx(pairs, cur_idx)
         IN  IF cur_pair_idx = 0
             THEN [elems |-> elems, type |-> type, ok |-> TRUE]
             ELSE LET nxt == pairs[cur_pair_idx].out_reg
                  IN  IF nxt # head
                      THEN CollectMove(pairs, head, nxt, Append(elems, nxt), type, fuel - 1)
                      ELSE CollectMove(pairs, head, nxt, elems, "CYCLE", fuel - 1)

\* Faulty variant of MarkChecked: only the pair the Move starts with is
\* marked.
MarkCheckedFirstPair(pairs, elems) ==
    LET hit == {get_pairidx_for_in_regidx(pairs, elems[1])}
    IN  [i \in 1..Len(pairs) |->
            IF i \in hit THEN [pairs[i] EXCEPT !.checked = TRUE] ELSE pairs[i]]

\* Third loop: mark the pairs having an in or out register in the move.
MarkChecked(pairs, elems) ==
    LET hit == {get_pairidx_for_in_regidx(pairs, elems[i]) : i \in 1..Len(elems)}
                 \cup {get_pairidx_for_out_regidx(pairs, elems[i]) : i \in 1..Len(elems)}
    IN  [i \in 1..Len(pairs) |->
            IF i \in hit THEN [pairs[i] EXCEPT !.checked = TRUE] ELSE pairs[i]]

\* Faulty variant of get_perm_move_info: the walk back to the start of the
\* Move is left out, the Move starts at the pair handed in.
get_perm_move_info_no_backwalk(pairs, start) ==
    LET first == pairs[start]
        fwd == CollectMove(pairs, first.in_reg, first.out_reg,
                           <<first.in_reg, first.out_reg>>, "CHAIN", Len(pairs) + 1)
    IN  [elems |-> fwd.elems, n_elems |-> Len(fwd.elems), type |-> fwd.type,
         ok |-> fwd.ok,
         pairs |-> MarkChecked(pairs, fwd.elems)]

\* perm_move_t, with the pair list as the call leaves it.
get_perm_move_info(pairs, start) ==
    LET back == FindMoveStart(pairs, pairs[start].in_reg, pairs[start].out_reg,
                              start, Len(pairs) + 1)
        first == pairs[back.start]
        fwd == CollectMove(pairs, back.head, first.out_reg,
                           <<first.in_reg, first.out_reg>>, back.type, Len(pairs) + 1)
    IN  [elems |-> fwd.elems, n_elems |-> Len(fwd.elems), type |-> fwd.type,
         ok |-> back.ok /\ fwd.ok,
         pairs |-> MarkChecked(pairs, fwd.elems)]

\* --------------------------------------------------------- node creation
be_new_Copy(g, op) ==
    [Nd EXCEPT !.op = "Copy", !.mode = g[op].mode, !.ins = <<op>>, !.cls = g[op].cls]

be_new_Perm(cls, in) ==
    [Nd EXCEPT !.op = "Perm", !.mode = "T", !.ins = in, !.cls = cls]

new_r_Proj(pred, mode, cls, pn) ==
    [Nd EXCEPT !.op = "Proj", !.mode = mode, !.ins = <<pred>>, !.cls = cls, !.pn = pn]

\* ------------------------------------------------------------ Perm lowerer
\* The lowering state threaded through the split functions: graph g,
\* schedule s, pair list.  move.elems[i] here is move->elems[i - 1] in C.
RECURSIVE ChainLoop(_, _, _, _)
ChainLoop(move, st, sched_point, i) ==
    IF i < 1 THEN st
    ELSE LET arg1 == get_node_for_in_register(st.pairs, move.elems[i])
             res2 == get_node_for_out_register(st.pairs, move.elems[i + 1])
             cpy  == Len(st.g) + 1
             g1   == Append(st.g, [be_new_Copy(st.g, arg1) EXCEPT !.reg = move.elems[i + 1]])
             g2   == exchange(g1, res2, cpy)
             s2   == sched_add_after(st.s, skip_Proj(g2, sched_point), cpy)
         IN  ChainLoop(move, [st EXCEPT !.g = g2, !.s = s2], cpy, i - 1)

\* Faulty variant of split_chain_into_copies: the copies are emitted from the start
\* of the chain to its end, so a copy overwrites what the next one reads.
RECURSIVE ChainLoopAscending(_, _, _, _)
ChainLoopAscending(move, st, sched_point, i) ==
    IF i > move.n_elems - 1 THEN st
    ELSE LET arg1 == get_node_for_in_register(st.pairs, move.elems[i])
             res2 == get_node_for_out_register(st.pairs, move.elems[i + 1])
             cpy  == Len(st.g) + 1
             g1   == Append(st.g, [be_new_Copy(st.g, arg1) EXCEPT !.reg = move.elems[i + 1]])
             g2   == exchange(g1, res2, cpy)
             s2   == sched_add_after(st.s, skip_Proj(g2, sched_point), cpy)
         IN  ChainLoopAscending(move, [st EXCEPT !.g = g2, !.s = s2], cpy, i + 1)

split_chain_into_copies_ascending(irn, move, st) ==
    ChainLoopAscending(move, st, sched_prev(st.s, irn), 1)

split_chain_into_copies(irn, move, st) ==
    ChainLoop(move, st, sched_prev(st.s, irn), move.n_elems - 1)

\* Faulty variant of SwapLoop: the scheduling point is not advanced, every
\* swap is put right behind the predecessor of the Perm.
RECURSIVE SwapLoopStalePoint(_, _, _, _, _)
SwapLoopStalePoint(irn, move, st, sched_point, i) ==
    IF i < 1 THEN st
    ELSE LET reg_class == st.g[st.g[irn].ins[1]].cls
             arg1  == get_node_for_in_register(st.pairs, move.elems[i])
             arg2  == get_node_for_in_register(st.pairs, move.elems[i + 1])
             res1o == get_node_for_out_register(st.pairs, move.elems[i])
             res2  == get_node_for_out_register(st.pairs, move.elems[i + 1])
             xchg  == Len(st.g) + 1
             g1    == Append(st.g, be_new_Perm(reg_class, <<arg1, arg2>>))
             mid   == i > 1
             pidx  == get_pairidx_for_in_regidx(st.pairs, move.elems[i])
             res1  == IF mid THEN xchg + 1 ELSE res1o
             g2    == IF mid
                      THEN Append(g1, new_r_Proj(xchg, g1[res1o].mode, reg_class, 0))
                      ELSE g1
             pairs2 == IF mid THEN [st.pairs EXCEPT ![pidx].in_node = res1] ELSE st.pairs
             g3    == [g2 EXCEPT ![res2].ins = <<xchg>>, ![res2].pn = 0,
                                 ![res2].reg = move.elems[i + 1]]
             g4    == [g3 EXCEPT ![res1].ins = <<xchg>>, ![res1].pn = 1,
                                 ![res1].reg = move.elems[i]]
             s2    == sched_add_after(st.s, skip_Proj(g4, sched_point), xchg)
         IN  SwapLoopStalePoint(irn, move, [g |-> g4, s |-> s2, pairs |-> pairs2],
                                sched_point, i - 1)

RECURSIVE SwapLoop(_, _, _, _, _)
SwapLoop(irn, move, st, sched_point, i) ==
    IF i < 1 THEN st
    ELSE LET reg_class == st.g[st.g[irn].ins[1]].cls
             arg1  == get_node_for_in_register(st.pairs, move.elems[i])
             arg2  == get_node_for_in_register(st.pairs, move.elems[i + 1])
             res1o == get_node_for_out_register(st.pairs, move.elems[i])
             res2  == get_node_for_out_register(st.pairs, move.elems[i + 1])
             xchg  == Len(st.g) + 1
             g1    == Append(st.g, be_new_Perm(reg_class, <<arg1, arg2>>))
             mid   == i > 1
             pidx  == get_pairidx_for_in_regidx(st.pairs, move.elems[i])
             res1  == IF mid THEN xchg + 1 ELSE res1o
             g2    == IF mid
                      THEN Append(g1, new_r_Proj(xchg, g1[res1o].mode, reg_class, 0))
                      ELSE g1
             pairs2 == IF mid THEN [st.pairs EXCEPT ![pidx].in_node = res1] ELSE st.pairs
             g3    == [g2 EXCEPT ![res2].ins = <<xchg>>, ![res2].pn = 0,
                                 ![res2].reg = move.elems[i + 1]]
             g4    == [g3 EXCEPT ![res1].ins = <<xchg>>, ![res1].pn = 1,
                                 ![res1].reg = move.elems[i]]
             s2    == sched_add_after(st.s, skip_Proj(g4, sched_point), xchg)
         IN  SwapLoop(irn, move, [g |-> g4, s |-> s2, pairs |-> pairs2], res1, i - 1)

\* Faulty variant of split_cycle_into_swaps: the loop starts one element
\* too late, so the exchange of the last two registers is missing.
split_cycle_into_swaps_short(irn, move, st) ==
    SwapLoop(irn, move, st, sched_prev(st.s, irn), move.n_elems - 2)

split_cycle_into_swaps(irn, move, st) ==
    SwapLoop(irn, move, st, sched_prev(st.s, irn), move.n_elems - 1)

\* split_cycle_into_copies scheduling the restore copy right behind the save
\* copy instead of behind the last copy of the chain.
split_cycle_into_copies_stale_point(irn, move, st, free_reg) ==
    LET sched_point == sched_prev(st.s, irn)
        arg      == get_node_for_in_register(st.pairs, move.elems[move.n_elems])
        save_cpy == Len(st.g) + 1
        g1       == Append(st.g, [be_new_Copy(st.g, arg) EXCEPT !.reg = free_reg])
        s1       == sched_add_after(st.s, skip_Proj(g1, sched_point), save_cpy)
        st2      == ChainLoop(move, [st EXCEPT !.g = g1, !.s = s1], save_cpy,
                              move.n_elems - 1)
        restore_cpy == Len(st2.g) + 1
        g3       == Append(st2.g, [be_new_Copy(st2.g, save_cpy) EXCEPT !.reg = move.elems[1]])
        proj     == get_node_for_out_register(st2.pairs, move.elems[1])
        g4       == exchange(g3, proj, restore_cpy)
        s4       == sched_add_after(st2.s, save_cpy, restore_cpy)
    IN  [st2 EXCEPT !.g = g4, !.s = s4]

split_cycle_into_copies(irn, move, st, free_reg) ==
    LET sched_point == sched_prev(st.s, irn)
        arg      == get_node_for_in_register(st.pairs, move.elems[move.n_elems])
        save_cpy == Len(st.g) + 1
        g1       == Append(st.g, [be_new_Copy(st.g, arg) EXCEPT !.reg = free_reg])
        s1       == sched_add_after(st.s, skip_Proj(g1, sched_point), save_cpy)
        st2      == ChainLoop(move, [st EXCEPT !.g = g1, !.s = s1], save_cpy,
                              move.n_elems - 1)
        last     == IF move.n_elems > 1 THEN Len(st2.g) ELSE save_cpy
        restore_cpy == Len(st2.g) + 1
        g3       == Append(st2.g, [be_new_Copy(st2.g, save_cpy) EXCEPT !.reg = move.elems[1]])
        proj     == get_node_for_out_register(st2.pairs, move.elems[1])
        g4       == exchange(g3, proj, restore_cpy)
        s4       == sched_add_after(st2.s, skip_Proj(g4, last), restore_cpy)
    IN  [st2 EXCEPT !.g = g4, !.s = s4]

reduce_perm_size(irn, move, st, free_reg) ==
    IF move.type = "CYCLE"
    THEN IF free_reg = NoReg \/ move.n_elems <= 2
         THEN split_cycle_into_swaps(irn, move, st)
         ELSE split_cycle_into_copies(irn, move, st, free_reg)
    ELSE split_chain_into_copies(irn, move, st)

\* Each out edge of the Perm in enumeration order: an identity slot is
\* resolved at once (its Proj is exchanged for the input), any other slot
\* becomes a pair.
RECURSIVE BuildPairs(_, _, _, _, _)
BuildPairs(g, irn, edges, i, pairs) ==
    IF i > Len(edges) THEN [g |-> g, pairs |-> pairs]
    ELSE LET out     == edges[i]
             in      == g[irn].ins[g[out].pn + 1]
             in_reg  == g[in].reg
             out_reg == g[out].reg
         IN  IF in_reg = out_reg
             THEN BuildPairs(exchange(g, out, in), irn, edges, i + 1, pairs)
             ELSE BuildPairs(g, irn, edges, i + 1,
                             Append(pairs, Pair(in_reg, in, out_reg, out)))

\* build_register_pair_list leaving the Proj of an identity slot in place.
build_register_pair_list_no_reroute(g, eo, irn) ==
    [g |-> g, pairs |-> BuildPairs(g, irn, OutEdges(g, eo, irn), 1, <<>>).pairs]

build_register_pair_list(g, eo, irn) == BuildPairs(g, irn, OutEdges(g, eo, irn), 1, <<>>)

\* -------------------------------------------------- scratch-register finder
\* The register index set_reg_in_use writes, if any: none for a node of a
\* non-data mode, with a virtual register or of another class.  (A data
\* node without a register makes the C code panic; such nodes do not occur
\* after register allocation.)
set_reg_in_use(g, node, reg_class, regs_in_use, in_use) ==
    IF ~mode_is_data(g, node) THEN regs_in_use
    ELSE IF g[node].reg = NoReg THEN regs_in_use
    ELSE IF "virtual" \in g[node].flags THEN regs_in_use
    ELSE IF g[node].cls # reg_class THEN regs_in_use
    ELSE IF in_use THEN regs_in_use \cup {g[node].reg}
    ELSE regs_in_use \ {g[node].reg}

RECURSIVE SetAll(_, _, _, _, _)
SetAll(g, nodes, reg_class, regs_in_use, in_use) ==
    IF nodes = <<>> THEN regs_in_use
    ELSE SetAll(g, Tail(nodes), reg_class,
                set_reg_in_use(g, Head(nodes), reg_class, regs_in_use, in_use), in_use)

\* Faulty variant of update_reg_defs: the defined registers are always
\* marked free, whatever in_use says.
update_reg_defs_clears(g, eo, node, reg_class, regs_in_use, in_use) ==
    IF g[node].mode = "T"
    THEN SetAll(g, OutEdges(g, eo, node), reg_class, regs_in_use, FALSE)
    ELSE set_reg_in_use(g, node, reg_class, regs_in_use, FALSE)

update_reg_defs(g, eo, node, reg_class, regs_in_use, in_use) ==
    IF g[node].mode = "T"
    THEN SetAll(g, OutEdges(g, eo, node), reg_class, regs_in_use, in_use)
    ELSE set_reg_in_use(g, node, reg_class, regs_in_use, in_use)

\* update_reg_uses marking nothing.
update_reg_uses_none(g, node, reg_class, regs_in_use) == regs_in_use

update_reg_uses(g, node, reg_class, regs_in_use) ==
    SetAll(g, g[node].ins, reg_class, regs_in_use, TRUE)

\* sched_foreach_reverse over the block, from position i down.
RECURSIVE FreeWalk(_, _, _, _, _, _, _)
FreeWalk(g, s, eo, irn, reg_class, regs_in_use, i) ==
    IF i < 1 THEN regs_in_use
    ELSE LET node == s[i]
         IN  IF g[node].op = "Phi" THEN regs_in_use
             ELSE LET defs == update_reg_defs(g, eo, node, reg_class, regs_in_use, irn = node)
                      uses == update_reg_uses(g, node, reg_class, defs)
                  IN  IF irn = node THEN uses
                      ELSE FreeWalk(g, s, eo, irn, reg_class, uses, i - 1)

RegistersInUse(g, s, eo, live_end, irn, reg_class) ==
    LET atEnd == {g[n].reg : n \in {m \in live_end :
                      set_reg_in_use(g, m, reg_class, {}, TRUE) # {}}}
    IN  FreeWalk(g, s, eo, irn, reg_class, atEnd, Len(s))

\* The register find_free_register inserts into free_register_map for irn,
\* NoReg if it inserts none.
find_free_register(g, s, eo, live_end, allocatable, irn, reg_class) ==
    LET registers_in_use == RegistersInUse(g, s, eo, live_end, irn, reg_class)
        free == {i \in Regs : i \notin registers_in_use /\ i \in allocatable}
    IN  IF free = {} THEN NoReg
        ELSE CHOOSE i \in free : \A j \in free : i <= j

\* ------------------------------------------------------------- liveness
\* A node executes in the block if it is scheduled there (a Proj: if its
\* predecessor is); the other nodes belong to other blocks.
InBlock(g, s, n) == sched_is_scheduled(s, skip_Proj(g, n))

TimeStep(g, s, n) == IF InBlock(g, s, n) THEN SchedPos(s, skip_Proj(g, n)) ELSE 0

\* The values live at the end of the block: those with a user in another
\* block.
LiveEnd(g, s) ==
    {v \in 1..Len(g) : g[v].op # "Deleted" /\ g[v].mode # "T"
                        /\ \E m \in Users(g, v) : ~InBlock(g, s, m)}

value_strictly_dominates(g, s, a, b) == TimeStep(g, s, a) < TimeStep(g, s, b)

be_values_interfere(g, s, live_end, a0, b0) ==
    LET b2a == b0 = a0 \/ value_strictly_dominates(g, s, b0, a0)
        a2b == a0 = b0 \/ value_strictly_dominates(g, s, a0, b0)
        a   == IF b2a THEN b0 ELSE a0
        b   == IF b2a THEN a0 ELSE b0
    IN  /\ (a2b \/ b2a)
        /\ \/ a \in live_end
           \/ \E user \in Users(g, a) :
                 /\ InBlock(g, s, user)
                 /\ g[user].op # "Phi"
                 /\ value_strictly_dominates(g, s, b, user)

arch_irn_consider_in_reg_alloc(g, cls, n) ==
    g[n].cls = cls /\ "ignore" \notin g[n].flags

\* ------------------------------------------------------------ push-through
be_Perm_reduce(g, perm, new_size, map) ==
    [g EXCEPT ![perm].ins = [n \in 1..new_size |-> g[perm].ins[map[n] + 1]]]

\* The frontier: the last node before the Perm with an operand of the class
\* that does not interfere with one_proj; the block if there is none.
Frontier(g, s, live_end, perm, cls, one_proj) ==
    LET cand == {i \in 1..(SchedPos(s, perm) - 1) :
                    \E j \in 1..Len(g[s[i]].ins) :
                        /\ arch_irn_consider_in_reg_alloc(g, cls, g[s[i]].ins[j])
                        /\ ~be_values_interfere(g, s, live_end, g[s[i]].ins[j], one_proj)}
    IN  IF cand = {} THEN Block
        ELSE s[CHOOSE i \in cand : \A j \in cand : j <= i]

\* Faulty variant of PushLoop: the moved node keeps its own register
\* instead of taking the one of the Proj it replaces.
RECURSIVE PushLoopKeepsRegister(_, _, _, _, _, _, _, _)
PushLoopKeepsRegister(g, s, eo, perm, frontier, cls, node, moved) ==
    LET stop == [g |-> g, s |-> s, moved |-> moved]
    IN  IF node = Block THEN stop
        ELSE LET edges == OutEdges(g, eo, perm)
                 hits  == {i \in 1..Len(edges) : g[perm].ins[g[edges[i]].pn + 1] = node}
             IN  IF hits = {} THEN stop
                 ELSE LET proj  == edges[CHOOSE i \in hits : \A j \in hits : i <= j]
                          input == g[proj].pn
                      IN  IF ~sched_comes_after(s, frontier, node) THEN stop
                          ELSE IF "modify_flags" \in g[node].flags THEN stop
                          ELSE IF g[node].req # {"normal"} THEN stop
                          ELSE IF \E i \in 1..Len(g[node].ins) :
                                     arch_irn_consider_in_reg_alloc(g, cls, g[node].ins[i])
                          THEN stop
                          ELSE LET s2 == sched_add_after(sched_remove(s, node), perm, node)
                                   g3 == exchange(g, proj, node)
                               IN  PushLoopKeepsRegister(g3, s2, eo, perm, frontier, cls,
                                                         sched_prev(s2, node), moved \cup {input})

\* The while loop of push_through_perm, from node on; moved is the set of
\* moved input numbers.
RECURSIVE PushLoop(_, _, _, _, _, _, _, _)
PushLoop(g, s, eo, perm, frontier, cls, node, moved) ==
    LET stop == [g |-> g, s |-> s, moved |-> moved]
    IN  IF node = Block THEN stop
        ELSE LET edges == OutEdges(g, eo, perm)
                 hits  == {i \in 1..Len(edges) : g[perm].ins[g[edges[i]].pn + 1] = node}
             IN  IF hits = {} THEN stop
                 ELSE LET proj  == edges[CHOOSE i \in hits : \A j \in hits : i <= j]
                          input == g[proj].pn
                      IN  IF ~sched_comes_after(s, frontier, node) THEN stop
                          ELSE IF "modify_flags" \in g[node].flags THEN stop
                          ELSE IF g[node].req # {"normal"} THEN stop
                          ELSE IF \E i \in 1..Len(g[node].ins) :
                                     arch_irn_consider_in_reg_alloc(g, cls, g[node].ins[i])
                          THEN stop
                          ELSE LET s2 == sched_add_after(sched_remove(s, node), perm, node)
                                   g2 == [g EXCEPT ![node].reg = g[proj].reg]
                                   g3 == exchange(g2, proj, node)
                               IN  PushLoop(g3, s2, eo, perm, frontier, cls,
                                            sched_prev(s2, node), moved \cup {input})

\* map[n] is the n-th input number not moved (0-based numbers).
RECURSIVE KeptInputs(_, _, _)
KeptInputs(arity, moved, i) ==
    IF i >= arity THEN <<>>
    ELSE IF i \in moved THEN KeptInputs(arity, moved, i + 1)
    ELSE <<i>> \o KeptInputs(arity, moved, i + 1)

\* Faulty variant of ShrinkPerm: the reduced Perm keeps its first new_size
\* inputs instead of the inputs that were not moved.
ShrinkPermKeepsFirstInputs(g, s, perm, loop) ==
    LET arity    == Len(g[perm].ins)
        n_moved  == Cardinality(loop.moved)
        new_size == arity - n_moved
        map      == KeptInputs(arity, loop.moved, 0)
        proj_map == [i \in 0..(arity - 1) |->
                        IF i \in loop.moved THEN -1
                        ELSE (CHOOSE n \in 1..new_size : map[n] = i) - 1]
        projs    == Users(loop.g, perm)
        g2       == [m \in 1..Len(loop.g) |->
                        IF m \in projs
                        THEN [loop.g[m] EXCEPT !.pn = proj_map[loop.g[m].pn]]
                        ELSE loop.g[m]]
    IN  IF n_moved = 0
        THEN [g |-> g, s |-> s, ret |-> 1, n_moved |-> 0]
        ELSE IF new_size = 0
        THEN [g |-> kill_node(loop.g, perm), s |-> sched_remove(loop.s, perm),
              ret |-> 0, n_moved |-> n_moved]
        ELSE [g |-> be_Perm_reduce(g2, perm, new_size, [n \in 1..new_size |-> n - 1]),
              s |-> loop.s, ret |-> 1, n_moved |-> n_moved]

\* Faulty variant of ShrinkPerm: a Perm all of whose inputs were moved is removed,
\* but reported as staying.
ShrinkPermReportsStay(g, s, perm, loop) ==
    IF Cardinality(loop.moved) = 0
    THEN [g |-> g, s |-> s, ret |-> 1, n_moved |-> 0]
    ELSE [g |-> kill_node(loop.g, perm), s |-> sched_remove(loop.s, perm),
          ret |-> 1, n_moved |-> Cardinality(loop.moved)]

\* The end of push_through_perm, after its loop (g, s: graph and schedule
\* on entry): the Perm is removed or reduced to the inputs not moved.
ShrinkPerm(g, s, perm, loop) ==
    LET arity    == Len(g[perm].ins)
        n_moved  == Cardinality(loop.moved)
        new_size == arity - n_moved
        map      == KeptInputs(arity, loop.moved, 0)
        proj_map == [i \in 0..(arity - 1) |->
                        IF i \in loop.moved THEN -1
                        ELSE (CHOOSE n \in 1..new_size : map[n] = i) - 1]
        projs    == Users(loop.g, perm)
        g2       == [m \in 1..Len(loop.g) |->
                        IF m \in projs
                        THEN [loop.g[m] EXCEPT !.pn = proj_map[loop.g[m].pn]]
                        ELSE loop.g[m]]
    IN  IF n_moved = 0
        THEN [g |-> g, s |-> s, ret |-> 1, n_moved |-> 0]
        ELSE IF new_size = 0
        THEN [g |-> kill_node(loop.g, perm), s |-> sched_remove(loop.s, perm),
              ret |-> 0, n_moved |-> n_moved]
        ELSE [g |-> be_Perm_reduce(g2, perm, new_size, map), s |-> loop.s,
              ret |-> 1, n_moved |-> n_moved]

\* The graph and schedule push_through_perm leaves, and its return value.
push_through_perm(g, s, eo, live_end, perm) ==
    LET one_proj == OutEdges(g, eo, perm)[1]
        cls      == g[one_proj].cls
        frontier == Frontier(g, s, live_end, perm, cls, one_proj)
    IN  ShrinkPerm(g, s, perm,
                   PushLoop(g, s, eo, perm, frontier, cls, sched_prev(s, perm), {}))

\* ------------------------------------------------------------------ state
\* ---------------------------------------------------- constraint assurance
has_irn_users(g, irn) == Users(g, irn) # {}

be_is_Copy(g, n) == n # Block /\ g[n].op = "Copy"

be_is_CopyKeep(g, n) == n # Block /\ g[n].op = "CopyKeep"

be_is_Keep(g, n) == n # Block /\ g[n].op = "Keep"

arch_irn_is_ignore(g, n) == "ignore" \in g[n].req

\* be_new_CopyKeep(block, src, n, in_keep): a copy of src that keeps in_keep.
be_new_CopyKeep(g, src, in_keep) ==
    [Nd EXCEPT !.op = "CopyKeep", !.mode = g[src].mode, !.ins = <<src>> \o in_keep,
               !.cls = g[src].cls]

be_new_Keep(in) == [Nd EXCEPT !.op = "Keep", !.mode = "ANY", !.ins = in]

\* Faulty variant of find_copy: only the node right in front of irn is
\* looked at.
find_copy_adjacent(g, s, irn, op) ==
    LET cur_node == sched_prev(s, irn)
    IN  IF ~be_is_Copy(g, cur_node) THEN NoNode
        ELSE IF g[cur_node].ins[1] = op /\ "dont_spill" \in g[cur_node].flags
        THEN cur_node
        ELSE NoNode

\* The dont_spill Copy of op among the Copies scheduled right in front of
\* irn, NoNode if the first node that is no Copy comes before one is found.
RECURSIVE find_copy(_, _, _, _)
find_copy(g, s, irn, op) ==
    LET cur_node == sched_prev(s, irn)
    IN  IF ~be_is_Copy(g, cur_node) THEN NoNode
        ELSE IF g[cur_node].ins[1] = op /\ "dont_spill" \in g[cur_node].flags
        THEN cur_node
        ELSE find_copy(g, s, cur_node, op)

\* The op_set with nodes added to the copies of key (a new entry of class
\* cls if key has none).
OpSetInsert(op_set, key, cls, nodes) ==
    IF \E e \in op_set : e.key = key
    THEN {IF e.key = key THEN [e EXCEPT !.copies = @ \cup nodes] ELSE e : e \in op_set}
    ELSE op_set \cup {[key |-> key, cls |-> cls, copies |-> nodes]}

\* st = [g, s, env]: graph, schedule and op_set.
\* gen_assure_different_pattern leaving the copy spillable.
gen_assure_different_pattern_spillable(st, irn, other_different) ==
    IF arch_irn_is_ignore(st.g, other_different) \/ ~mode_is_datab(st.g, other_different)
    THEN st
    ELSE LET cls   == st.g[other_different].cls
             found == find_copy(st.g, st.s, skip_Proj(st.g, irn), other_different)
             cpy   == IF found = NoNode THEN Len(st.g) + 1 ELSE found
             g1    == IF found = NoNode
                      THEN Append(st.g, be_new_Copy(st.g, other_different))
                      ELSE st.g
             keep  == Len(g1) + 1
             g2    == Append(g1, IF has_irn_users(g1, other_different)
                                 THEN be_new_CopyKeep(g1, cpy, <<irn>>)
                                 ELSE be_new_Keep(<<irn, cpy>>))
             s1    == IF ~sched_is_scheduled(st.s, cpy)
                      THEN sched_add_before(st.s, skip_Proj(g2, irn), cpy)
                      ELSE st.s
             s2    == sched_add_after(s1, skip_Proj(g2, irn), keep)
             added == IF be_is_CopyKeep(g2, keep) THEN {cpy, keep} ELSE {cpy}
         IN  [g |-> g2, s |-> s2, env |-> OpSetInsert(st.env, other_different, cls, added)]

gen_assure_different_pattern(st, irn, other_different) ==
    IF arch_irn_is_ignore(st.g, other_different) \/ ~mode_is_datab(st.g, other_different)
    THEN st
    ELSE LET cls   == st.g[other_different].cls
             found == find_copy(st.g, st.s, skip_Proj(st.g, irn), other_different)
             cpy   == IF found = NoNode THEN Len(st.g) + 1 ELSE found
             g1    == IF found = NoNode
                      THEN Append(st.g, [be_new_Copy(st.g, other_different)
                                            EXCEPT !.flags = {"dont_spill"}])
                      ELSE st.g
             keep  == Len(g1) + 1
             g2    == Append(g1, IF has_irn_users(g1, other_different)
                                 THEN be_new_CopyKeep(g1, cpy, <<irn>>)
                                 ELSE be_new_Keep(<<irn, cpy>>))
             s1    == IF ~sched_is_scheduled(st.s, cpy)
                      THEN sched_add_before(st.s, skip_Proj(g2, irn), cpy)
                      ELSE st.s
             s2    == sched_add_after(s1, skip_Proj(g2, irn), keep)
             added == IF be_is_CopyKeep(g2, keep) THEN {cpy, keep} ELSE {cpy}
         IN  [g |-> g2, s |-> s2, env |-> OpSetInsert(st.env, other_different, cls, added)]

\* Bit i of a mask.
Bit(mask, i) == (mask \div (2 ^ i)) % 2 = 1

is_po2(x) == \A i, j \in 0..MaskBits : (Bit(x, i) /\ Bit(x, j)) => i = j

ntz(x) == CHOOSE i \in 0..MaskBits : Bit(x, i) /\ \A j \in 0..(i - 1) : ~Bit(x, j)

RECURSIVE DifferentLoop(_, _, _, _, _)
DifferentLoop(st, irn, skipped_irn, other, i) ==
    IF 2 ^ i > other THEN st
    ELSE DifferentLoop(IF Bit(other, i)
                       THEN gen_assure_different_pattern(st, irn, st.g[skipped_irn].ins[i + 1])
                       ELSE st,
                       irn, skipped_irn, other, i + 1)

\* The should_be_same shortcut: both masks select one input each and the
\* two inputs are the same node.
SameShortcut(g, irn, skipped_irn) ==
    /\ "should_be_same" \in g[irn].req
    /\ is_po2(g[irn].od) /\ is_po2(g[irn].os)
    /\ g[skipped_irn].ins[ntz(g[irn].od) + 1] = g[skipped_irn].ins[ntz(g[irn].os) + 1]

\* assure_different_constraints without the should_be_same shortcut.
assure_different_constraints_no_shortcut(st, irn, skipped_irn) ==
    IF "must_be_different" \notin st.g[irn].req THEN st
    ELSE DifferentLoop(st, irn, skipped_irn, st.g[irn].od, 0)

assure_different_constraints(st, irn, skipped_irn) ==
    IF "must_be_different" \notin st.g[irn].req THEN st
    ELSE IF SameShortcut(st.g, irn, skipped_irn) THEN st
    ELSE DifferentLoop(st, irn, skipped_irn, st.g[irn].od, 0)

RECURSIVE WalkProjs(_, _, _, _)
WalkProjs(st, irn, edges, i) ==
    IF i > Len(edges) THEN st
    ELSE WalkProjs(IF mode_is_datab(st.g, edges[i])
                   THEN assure_different_constraints(st, edges[i], irn)
                   ELSE st,
                   irn, edges, i + 1)

\* The body of the loop of assure_constraints_walker at node irn.
WalkNode(st, eo, irn) ==
    IF st.g[irn].mode = "T" THEN WalkProjs(st, irn, OutEdges(st.g, eo, irn), 1)
    ELSE IF mode_is_datab(st.g, irn) THEN assure_different_constraints(st, irn, irn)
    ELSE st

\* The CopyKeeps ck_arr[j], j # idx, not yet taken, that keep a value of
\* the node ref_mode_T, in array order.
MeltCandidates(g, ck_arr, taken, idx, ref_mode_T) ==
    SelectSeq([j \in 1..Len(ck_arr) |-> j],
              LAMBDA j : /\ j # idx
                         /\ j \notin taken
                         /\ skip_Proj(g, g[ck_arr[j]].ins[2]) = ref_mode_T)

RECURSIVE RemoveAll(_, _)
RemoveAll(s, nodes) ==
    IF nodes = <<>> THEN s ELSE RemoveAll(sched_remove(s, Head(nodes)), Tail(nodes))

RECURSIVE KillAll(_, _)
KillAll(g, nodes) ==
    IF nodes = <<>> THEN g ELSE KillAll(kill_node(g, Head(nodes)), Tail(nodes))

\* The first node behind n in the schedule that is neither Keep nor
\* CopyKeep (Block: the end of the schedule).
RECURSIVE MeltSchedPoint(_, _, _)
MeltSchedPoint(g, s, n) ==
    LET sched_pt == sched_next(s, n)
    IN  IF be_is_Keep(g, sched_pt) \/ be_is_CopyKeep(g, sched_pt)
        THEN MeltSchedPoint(g, s, sched_pt)
        ELSE sched_pt

\* The loop over ck_arr of melt_copykeeps for one entry; st = [g, s,
\* copies, obst], taken the indices already set to NULL.  obst is the
\* object growing on the obstack: every iteration grows it by ref and the
\* candidates, obstack_finish ends it only when there is something to melt,
\* and melt_arr is the first n_melt nodes of the object finished.
RECURSIVE MeltLoop(_, _, _, _)
MeltLoop(st, ck_arr, taken, idx) ==
    IF idx > Len(ck_arr) THEN st
    ELSE IF idx \in taken THEN MeltLoop(st, ck_arr, taken, idx + 1)
    ELSE LET ref        == ck_arr[idx]
             ref_mode_T == skip_Proj(st.g, st.g[ref].ins[2])
             js         == MeltCandidates(st.g, ck_arr, taken, idx, ref_mode_T)
             others     == [i \in 1..Len(js) |-> ck_arr[js[i]]]
             taken2     == taken \cup SeqSet(js) \cup {idx}
             n_melt     == 1 + Len(js)
             grown      == st.obst \o <<ref>> \o others
         IN  IF n_melt = 1 THEN MeltLoop([st EXCEPT !.obst = grown], ck_arr, taken2, idx + 1)
             ELSE LET s1        == sched_remove(RemoveAll(st.s, others), ref)
                      melt_arr  == SubSeq(grown, 1, n_melt)
                      new_ck_in == [j \in 1..n_melt |-> st.g[melt_arr[j]].ins[2]]
                      g1        == KillAll(st.g, SelectSeq(melt_arr, LAMBDA m : m # ref))
                      new_ck    == Len(g1) + 1
                      g2        == Append(g1, be_new_CopyKeep(g1, g1[ref].ins[1], new_ck_in))
                      s2        == sched_add_before(s1, MeltSchedPoint(g2, s1, ref_mode_T),
                                                    new_ck)
                      g3        == kill_node(g2, ref)
                  IN  MeltLoop([g |-> g3, s |-> s2,
                                copies |-> (st.copies \ (SeqSet(others) \cup {ref}))
                                               \cup {new_ck},
                                obst |-> <<>>],
                               ck_arr, taken2, idx + 1)

\* The definition a user of key reads after SSA reconstruction: of the
\* copies the one scheduled nearest in front of the user (the last one for a
\* user in another block), key itself if there is none.
NearestDef(g, s, key, copies, user) ==
    LET cands == {d \in copies : /\ sched_is_scheduled(s, d)
                                 /\ InBlock(g, s, user) => TimeStep(g, s, d) < TimeStep(g, s, user)}
    IN  IF cands = {} THEN key
        ELSE CHOOSE d \in cands : \A e \in cands : SchedPos(s, e) <= SchedPos(s, d)

be_ssa_construction_fix_users(g, s, key, copies) ==
    [m \in 1..Len(g) |->
        [g[m] EXCEPT !.ins = [i \in 1..Len(g[m].ins) |->
                                 IF g[m].ins[i] = key
                                 THEN NearestDef(g, s, key, copies, m)
                                 ELSE g[m].ins[i]]]]

\* A CopyKeep without users becomes a Keep of its inputs.
RECURSIVE DowngradeLoop(_, _)
DowngradeLoop(st, cps) ==
    IF cps = {} THEN st
    ELSE LET cp == CHOOSE c \in cps : \A d \in cps : c <= d
         IN  IF be_is_CopyKeep(st.g, cp) /\ get_irn_n_edges(st.g, cp) < 1
             THEN LET keep == Len(st.g) + 1
                      g1   == Append(st.g, be_new_Keep(st.g[cp].ins))
                      s1   == sched_remove(sched_add_before(st.s, cp, keep), cp)
                  IN  DowngradeLoop([g |-> kill_node(g1, cp), s |-> s1], cps \ {cp})
             ELSE DowngradeLoop(st, cps \ {cp})

VARIABLES
    irn,                \* the graph: node records by node number
    sched,              \* the schedule of the block
    eorder,             \* enumeration order of out edges
    allocatable,        \* birg->allocatable_regs of the class
    lv,                 \* liveness sets: [valid, live_end]
    free_register_map,  \* [init, map]: the static free_register_map
    pc,                 \* position in lower_nodes_after_ra
    run,                \* number of the current call of lower_nodes_after_ra
    todo,               \* Perms the free-register walk has yet to visit
    visited,            \* Perms the lowering walk has visited
    cur,                \* the Perm the lowering walker is at
    perm_stayed,        \* return value of push_through_perm
    n_moved,            \* nodes the last push_through_perm call moved
    arity,              \* locals of lower_perm_node
    pairs,
    keep_perm,
    moves,              \* the Moves decomposed so far for cur, each with the
                        \* numbers lo..hi of the nodes emitted for it
    entry,              \* graph and schedule when lower_perm_node was entered
    pushed,             \* graph and schedule when push_through_perm was entered
    snap,               \* graph and schedule when the current run began
    cenv                \* constraint_env_t.op_set: entries [key, cls, copies]

vars == <<irn, sched, eorder, allocatable, lv, free_register_map, pc, run, todo,
          visited, cur, perm_stayed, n_moved, arity, pairs, keep_perm, moves,
          entry, pushed, snap, cenv>>

MaxRuns == 2
MaxPre == 2
MaxLiveArity == 2

be_is_Perm(g, n) == g[n].op = "Perm"

AllPerms(g) == {p \in 1..Len(g) : be_is_Perm(g, p)}

get_free_register(map, n) ==
    IF \E e \in map.map : e[1] = n THEN (CHOOSE e \in map.map : e[1] = n)[2] ELSE NoReg

\* ------------------------------------------------------------ input blocks
\* A block  pre-nodes, Perm, Use  with a Perm of arity k: node i (1..k) is
\* the input of slot i holding register inr[i], node k+1 the Perm, node
\* k+1+i the Proj of slot i assigned outr[i].  Use reads every Proj and
\* Succ, a node of a successor block, reads Use.  pre lists the nodes
\* scheduled in front of the Perm, [slot, kind]: the input of a slot, or
\* (slot 0) an instruction X the Perm does not read.  Inputs that pre does
\* not name are defined in other blocks.
PermOf(k) == k + 1
ProjOf(k, i) == k + 1 + i
UseOf(k) == 2 * k + 2
SuccOf(k) == 2 * k + 3
ExtOf(k) == 2 * k + 4
ExtFOf(k) == 2 * k + 5
XOf(k) == 2 * k + 6
WOf(k) == 2 * k + 7

PreKind(pre, slot) ==
    IF \E j \in 1..Len(pre) : pre[j].slot = slot
    THEN pre[CHOOSE j \in 1..Len(pre) : pre[j].slot = slot].kind
    ELSE "plain"

\* An instruction of the given kind: plain, modifying the flags, with a
\* limited requirement, with an operand of the Perm's class, with an
\* operand of another class.
Instr(k, kind, reg) ==
    [Nd EXCEPT !.reg = reg,
               !.flags = IF kind = "flags" THEN {"modify_flags"} ELSE {},
               !.req = IF kind = "limited" THEN {"limited"} ELSE {"normal"},
               !.ins = IF kind = "clsop" THEN <<ExtOf(k)>>
                       ELSE IF kind = "fpop" THEN <<ExtFOf(k)>> ELSE <<>>]

\* ctx is what follows the Perm: W, a value of class wcls in register wreg
\* defined in another block, read by Use (wuse = "use"), by Succ ("succ")
\* or by nothing ("none"); the register of Use; whether Succ also reads the
\* first Proj.
MkGraph(k, inr, outr, pre, ctx) ==
    [n \in 1..(2 * k + 7) |->
        IF n <= k THEN Instr(k, PreKind(pre, n), inr[n])
        ELSE IF n = PermOf(k)
        THEN [Nd EXCEPT !.op = "Perm", !.mode = "T", !.ins = [i \in 1..k |-> i]]
        ELSE IF n <= 2 * k + 1
        THEN [Nd EXCEPT !.op = "Proj", !.ins = <<PermOf(k)>>, !.pn = n - k - 2,
                        !.reg = outr[n - k - 1]]
        ELSE IF n = UseOf(k)
        THEN [Nd EXCEPT !.ins = [i \in 1..k |-> ProjOf(k, i)]
                                   \o (IF ctx.wuse = "use" THEN <<WOf(k)>> ELSE <<>>),
                        !.reg = ctx.usereg]
        ELSE IF n = SuccOf(k)
        THEN [Nd EXCEPT !.ins = <<UseOf(k)>>
                                   \o (IF ctx.wuse = "succ" THEN <<WOf(k)>> ELSE <<>>)
                                   \o (IF ctx.projlive THEN <<ProjOf(k, 1)>> ELSE <<>>),
                        !.reg = ctx.usereg]
        ELSE IF n = ExtOf(k) THEN [Nd EXCEPT !.reg = NRegs]
        ELSE IF n = ExtFOf(k) THEN [Nd EXCEPT !.reg = 1, !.cls = "fp"]
        ELSE IF n = XOf(k) THEN Instr(k, PreKind(pre, 0), NRegs)
        ELSE [Nd EXCEPT !.reg = ctx.wreg, !.cls = ctx.wcls]]

MkSched(k, pre) ==
    [j \in 1..Len(pre) |-> IF pre[j].slot = 0 THEN XOf(k) ELSE pre[j].slot]
        \o <<PermOf(k), UseOf(k)>>

Injective(f) == \A i, j \in DOMAIN f : f[i] = f[j] => i = j

InjSeqs(k, S) == {f \in [1..k -> S] : Injective(f)}

\* Allocatable masks: the registers from a on (none for a = NRegs + 1).
AllocFrom(a) == {r \in Regs : r >= a}

\* No pass has begun.
Idle ==
    /\ lv = [valid |-> FALSE, live_end |-> {}]
    /\ free_register_map = [init |-> FALSE, map |-> {}]
    /\ pc = "idle"
    /\ run = 0
    /\ todo = {}
    /\ visited = {}
    /\ cur = NoNode
    /\ perm_stayed = 1
    /\ n_moved = 0
    /\ arity = 0
    /\ pairs = <<>>
    /\ keep_perm = 0
    /\ moves = <<>>
    /\ entry = [g |-> <<>>, s |-> <<>>]
    /\ pushed = [g |-> <<>>, s |-> <<>>]
    /\ snap = [g |-> <<>>, s |-> <<>>]
    /\ cenv = {}

InitWith(k, inr, outr, ord, pre, ctx, alloc) ==
    /\ irn = MkGraph(k, inr, outr, pre, ctx)
    /\ sched = MkSched(k, pre)
    /\ eorder = [j \in 1..k |-> ProjOf(k, ord[j])]
    /\ allocatable = alloc
    /\ Idle

\* The last n slots' inputs as plain instructions in front of the Perm.
PlainPre(k, n) == [j \in 1..n |-> [slot |-> k - n + j, kind |-> "plain"]]

\* The values live behind schedule position i (0: at the start of the
\* block): defined in another block or at a position up to i, and read
\* behind i or in another block.
LiveAfter(g, s, i) ==
    {v \in 1..Len(g) :
        /\ g[v].op # "Deleted" /\ g[v].mode = "data"
        /\ TimeStep(g, s, v) <= i
        /\ \E m \in Users(g, v) : ~InBlock(g, s, m) \/ TimeStep(g, s, m) > i}

DefinedAt(g, s, i) ==
    {v \in 1..Len(g) : g[v].op # "Deleted" /\ g[v].mode = "data"
                         /\ i > 0 /\ TimeStep(g, s, v) = i}

\* What register allocation guarantees: at every point of the block the
\* values live there, and the values written there, are in different
\* registers.
ValidAllocation(g, s) ==
    \A i \in 0..Len(s) :
        \A v, w \in LiveAfter(g, s, i) \cup DefinedAt(g, s, i) :
            (v # w /\ g[v].cls = g[w].cls) => g[v].reg # g[w].reg

\* Nothing of interest behind the Perm: Use reads the Projs into the first
\* Proj's register.
NoContext(outr) ==
    [wreg |-> NRegs, wcls |-> "gp", wuse |-> "none", usereg |-> outr[1],
     projlive |-> FALSE]

\* Every Perm of arity up to MaxArity over the class (slot i reads register
\* i; the code treats registers alike but for the choice of the free
\* register, which the allocatable mask varies), every enumeration order of
\* its Projs, with up to MaxPre movable inputs in front of it.
InitLowering ==
    \E k \in 1..MaxArity :
      \E outr \in InjSeqs(k, Regs), ord \in InjSeqs(k, 1..k) :
        \E n \in 0..(IF k < MaxPre THEN k ELSE MaxPre), a \in {1, NRegs, NRegs + 1} :
            InitWith(k, [i \in 1..k |-> i], outr, ord, PlainPre(k, n),
                     NoContext(outr), AllocFrom(a))

\* Every Perm of arity up to MaxLiveArity with a value live through it and
\* values live at the end of the block, in every valid register allocation.
InitLive ==
    \E k \in 1..MaxLiveArity :
      \E outr \in InjSeqs(k, Regs), a \in {1, NRegs, NRegs + 1} :
        \E wreg, usereg \in Regs, wcls \in {"gp", "fp"}, wuse \in {"use", "succ"},
           projlive \in BOOLEAN :
            LET ctx == [wreg |-> wreg, wcls |-> wcls, wuse |-> wuse,
                        usereg |-> usereg, projlive |-> projlive]
                inr == [i \in 1..k |-> i]
            IN  /\ ValidAllocation(MkGraph(k, inr, outr, <<>>, ctx), MkSched(k, <<>>))
                /\ InitWith(k, inr, outr, [i \in 1..k |-> i], <<>>, ctx, AllocFrom(a))

\* The kinds of instruction push_through_perm tells apart.
PushKinds == {"plain", "flags", "limited", "clsop", "fpop"}

\* One or two instructions in front of a Perm of k inputs: inputs of any
\* slots of the Perm or the instruction X that is no input (slot 0), the
\* one right in front of the Perm of any kind.
PrePlacements(k) ==
    {<<[slot |-> p, kind |-> kd]>> : p \in 0..k, kd \in PushKinds}
        \cup {<<[slot |-> qp[1], kind |-> "plain"], [slot |-> qp[2], kind |-> kd]>> :
                  qp \in {x \in (0..k) \X (0..k) : x[1] # x[2]}, kd \in PushKinds}

\* Every Perm of arity MaxArity with such instructions in front of it.
InitPush ==
    \E outr \in InjSeqs(MaxArity, 1..(MaxArity + 1)), pre \in PrePlacements(MaxArity) :
        InitWith(MaxArity, [i \in 1..MaxArity |-> i], outr, [i \in 1..MaxArity |-> i],
                 pre, NoContext(outr), AllocFrom(1))

\* Every Perm of arity 2 up to MaxArity whose first Proj has no user (Use
\* reads the other Projs only), behind an instruction X that is no input
\* of the Perm and reads a register of the class.
InitDeadProj ==
    \E k \in 2..MaxArity :
      \E outr \in InjSeqs(k, Regs) :
        /\ irn = [MkGraph(k, [i \in 1..k |-> i], outr,
                          <<[slot |-> 0, kind |-> "clsop"]>>, NoContext(outr))
                     EXCEPT ![UseOf(k)].ins = Tail(@)]
        /\ sched = MkSched(k, <<[slot |-> 0, kind |-> "clsop"]>>)
        /\ eorder = [j \in 1..k |-> ProjOf(k, j)]
        /\ allocatable = AllocFrom(1)
        /\ Idle

\* A Perm of two inputs in front of an instruction that must differ from
\* its first operand, the first Proj, and is in another register.
InitConstrained ==
    \E outr \in InjSeqs(2, 1..3), usereg \in Regs, a \in {1, NRegs + 1} :
        /\ usereg # outr[1]
        /\ irn = [MkGraph(2, <<1, 2>>, outr, <<>>, NoContext(outr))
                     EXCEPT ![UseOf(2)] = [@ EXCEPT !.req = {"must_be_different"},
                                                    !.od = 1, !.reg = usereg]]
        /\ sched = MkSched(2, <<>>)
        /\ eorder = <<ProjOf(2, 1), ProjOf(2, 2)>>
        /\ allocatable = AllocFrom(a)
        /\ Idle

Init == InitLowering \/ InitLive \/ InitPush \/ InitDeadProj \/ InitConstrained

\* Faulty variant of Begin: the run goes to the lowering walk at once and
\* leaves the search for free registers for later.
BeginWithoutSearch ==
    /\ pc \in {"idle", "done"}
    /\ run < MaxRuns
    /\ run' = run + 1
    /\ snap' = [g |-> irn, s |-> sched]
    /\ lv' = [valid |-> TRUE, live_end |-> LiveEnd(irn, sched)]
    /\ free_register_map' = [init |-> TRUE, map |-> {}]
    /\ todo' = AllPerms(irn)
    /\ visited' = {}
    /\ pc' = "walk"
    /\ UNCHANGED <<irn, sched, eorder, cenv, allocatable, cur, perm_stayed, n_moved, arity,
                   pairs, keep_perm, moves, entry, pushed>>

\* Faulty variant of Begin: the run starts with the walk of
\* assure_constraints_walker over the block, last node first.
RECURSIVE AssureBlock(_, _, _)
AssureBlock(st, eo, node) ==
    IF node = Block THEN st
    ELSE LET st2 == WalkNode(st, eo, node)
         IN  AssureBlock(st2, eo, sched_prev(st2.s, node))

BeginAssuringConstraints ==
    /\ pc \in {"idle", "done"}
    /\ run < MaxRuns
    /\ run' = run + 1
    /\ LET st == AssureBlock([g |-> irn, s |-> sched, env |-> {}], eorder,
                             sched[Len(sched)])
       IN  /\ irn' = st.g
           /\ sched' = st.s
           /\ cenv' = st.env
           /\ snap' = [g |-> irn, s |-> sched]
           /\ lv' = [valid |-> TRUE, live_end |-> LiveEnd(st.g, st.s)]
           /\ todo' = AllPerms(st.g)
           /\ pc' = IF AllPerms(st.g) = {} THEN "walk" ELSE "find"
    /\ free_register_map' = [init |-> TRUE, map |-> {}]
    /\ visited' = {}
    /\ UNCHANGED <<eorder, allocatable, cur, perm_stayed, n_moved, arity,
                   pairs, keep_perm, moves, entry, pushed>>

\* ----------------------------------------------------------------- driver
\* lower_nodes_after_ra, up to the first walk: liveness is assured and the
\* free-register map initialised.
Begin ==
    /\ pc \in {"idle", "done"}
    /\ run < MaxRuns
    /\ run' = run + 1
    /\ snap' = [g |-> irn, s |-> sched]
    /\ lv' = [valid |-> TRUE, live_end |-> LiveEnd(irn, sched)]
    /\ free_register_map' = [init |-> TRUE, map |-> {}]
    /\ todo' = AllPerms(irn)
    /\ visited' = {}
    /\ pc' = IF AllPerms(irn) = {} THEN "walk" ELSE "find"
    /\ UNCHANGED <<irn, sched, eorder, cenv, allocatable, cur, perm_stayed, n_moved, arity,
                   pairs, keep_perm, moves, entry, pushed>>

\* find_free_registers_walker at a Perm (the walk visits the nodes of the
\* graph in an order this file does not fix).
find_free_registers_walker(p) ==
    /\ pc = "find"
    /\ p \in todo
    /\ LET reg_class == irn[irn[p].ins[1]].cls
           reg == find_free_register(irn, sched, eorder, lv.live_end, allocatable,
                                     p, reg_class)
       IN  free_register_map' =
               IF reg = NoReg THEN free_register_map
               ELSE [free_register_map EXCEPT !.map = @ \cup {<<p, reg>>}]
    /\ todo' = todo \ {p}
    /\ pc' = IF todo = {p} THEN "walk" ELSE "find"
    /\ UNCHANGED <<irn, sched, eorder, cenv, allocatable, lv, run, visited, cur, perm_stayed,
                   n_moved, arity, pairs, keep_perm, moves, entry, pushed, snap>>

Unvisited == {p \in AllPerms(irn) : p \notin visited}

\* The Perms the walk reaches, in schedule order.
NextPerm == CHOOSE p \in Unvisited :
                \A q \in Unvisited : SchedPos(sched, p) <= SchedPos(sched, q)

\* lower_nodes_after_ra_walker at a Perm, up to the return of
\* push_through_perm.
PushThroughPerm ==
    /\ pc = "walk"
    /\ Unvisited # {}
    /\ LET p == NextPerm
           r == push_through_perm(irn, sched, eorder, lv.live_end, p)
       IN  /\ cur' = p
           /\ visited' = visited \cup {p}
           /\ pushed' = [g |-> irn, s |-> sched]
           /\ irn' = r.g
           /\ sched' = r.s
           /\ perm_stayed' = r.ret
           /\ n_moved' = r.n_moved
    /\ pc' = "pushed"
    /\ UNCHANGED <<eorder, cenv, allocatable, lv, free_register_map, run, todo, arity, pairs,
                   keep_perm, moves, entry, snap>>

\* A Perm created during the walk that the walk does not reach.
NotReached ==
    /\ pc = "walk"
    /\ Unvisited # {}
    /\ NextPerm > Len(snap.g)
    /\ visited' = visited \cup {NextPerm}
    /\ UNCHANGED <<irn, sched, eorder, cenv, allocatable, lv, free_register_map, pc, run, todo,
                   cur, perm_stayed, n_moved, arity, pairs, keep_perm, moves, entry,
                   pushed, snap>>

\* lower_perm_node up to its loop: the locals are set and the pair list is
\* built.
LowerBegin ==
    /\ pc = "pushed"
    /\ perm_stayed # 0
    /\ LET bp == build_register_pair_list(irn, eorder, cur)
       IN  /\ irn' = bp.g
           /\ pairs' = bp.pairs
    /\ arity' = Len(irn[cur].ins)
    /\ keep_perm' = 0
    /\ moves' = <<>>
    /\ entry' = [g |-> irn, s |-> sched]
    /\ pc' = "loop"
    /\ UNCHANGED <<sched, eorder, cenv, allocatable, lv, free_register_map, run, todo, visited,
                   cur, perm_stayed, n_moved, pushed, snap>>

FirstUnchecked(ps) == CHOOSE i \in 1..Len(ps) : ~ps[i].checked /\ \A j \in 1..(i - 1) : ps[j].checked

\* Faulty variants of KeepsPerm: the arity is not tested; no Perm is kept.
KeepsPermOfAnyArity(move, n) == move.type = "CYCLE"

KeepsPermNever(move, n) == FALSE

\* The test that leaves a Perm of two inputs exchanging two registers as it
\* is (n: the arity of the Perm).
KeepsPerm(move, n) == move.type = "CYCLE" /\ n = 2

\* One iteration of the loop of lower_perm_node.
LowerMove ==
    /\ pc = "loop"
    /\ get_n_unchecked_pairs(pairs) > 0
    /\ LET move == get_perm_move_info(pairs, FirstUnchecked(pairs))
           st   == IF KeepsPerm(move, arity)
                   THEN [g |-> irn, s |-> sched, pairs |-> move.pairs]
                   ELSE reduce_perm_size(cur, move,
                                         [g |-> irn, s |-> sched, pairs |-> move.pairs],
                                         get_free_register(free_register_map, cur))
       IN  /\ keep_perm' = IF KeepsPerm(move, arity) THEN 1 ELSE keep_perm
           /\ irn' = st.g
           /\ sched' = st.s
           /\ pairs' = st.pairs
           /\ moves' = Append(moves, [elems |-> move.elems, type |-> move.type,
                                      lo |-> Len(irn) + 1, hi |-> Len(st.g)])
    /\ UNCHANGED <<eorder, cenv, allocatable, lv, free_register_map, pc, run, todo, visited, cur,
                   perm_stayed, n_moved, arity, entry, pushed, snap>>

\* The end of lower_perm_node.
LowerEnd ==
    /\ pc = "loop"
    /\ get_n_unchecked_pairs(pairs) = 0
    /\ irn' = IF keep_perm = 0 THEN kill_node(irn, cur) ELSE irn
    /\ sched' = IF keep_perm = 0 THEN sched_remove(sched, cur) ELSE sched
    /\ pc' = "lowered"
    /\ UNCHANGED <<eorder, cenv, allocatable, lv, free_register_map, run, todo, visited, cur,
                   perm_stayed, n_moved, arity, pairs, keep_perm, moves, entry, pushed, snap>>

\* The walker returns: after lower_perm_node, or at once when the Perm did
\* not stay.
WalkerReturn ==
    /\ \/ pc = "lowered"
       \/ pc = "pushed" /\ perm_stayed = 0
    /\ pc' = "walk"
    /\ UNCHANGED <<irn, sched, eorder, cenv, allocatable, lv, free_register_map, run, todo,
                   visited, cur, perm_stayed, n_moved, arity, pairs, keep_perm, moves,
                   entry, pushed, snap>>

\* The end of lower_nodes_after_ra.
Finish ==
    /\ pc = "walk"
    /\ Unvisited = {}
    /\ free_register_map' = [init |-> FALSE, map |-> {}]
    /\ lv' = [valid |-> FALSE, live_end |-> {}]
    /\ pc' = "done"
    /\ UNCHANGED <<irn, sched, eorder, cenv, allocatable, run, todo, visited, cur, perm_stayed,
                   n_moved, arity, pairs, keep_perm, moves, entry, pushed, snap>>

Next ==
    \/ Begin
    \/ \E p \in todo : find_free_registers_walker(p)
    \/ PushThroughPerm
    \/ NotReached
    \/ LowerBegin
    \/ LowerMove
    \/ LowerEnd
    \/ WalkerReturn
    \/ Finish

Spec == Init /\ [][Next]_vars

\* ------------------------------------------- assure_constraints: the inputs
\* Before register allocation: node 1 is D1, node 2 is D2 (another block),
\* node 3 is the instruction N reading MaskBits of them, nodes 4 and 5 are
\* its Projs if N has mode T; then U, scheduled behind N, and S, in a
\* successor block, which read D1 as duse says.
Masks == 1..(2 ^ MaskBits - 1)

\* The requirements of a value: normal, must_be_different from the inputs
\* of mask od, and that together with should_be_same as the inputs of os.
Reqs ==
    {[req |-> {"normal"}, od |-> 0, os |-> 0]}
        \cup {[req |-> {"must_be_different"}, od |-> od, os |-> 0] : od \in Masks}
        \cup {[req |-> {"must_be_different", "should_be_same"}, od |-> od, os |-> os] :
                 od \in Masks, os \in Masks}

PlainReqs == {r \in Reqs : "should_be_same" \notin r.req}

WithReq(nd, r) == [nd EXCEPT !.req = r.req, !.od = r.od, !.os = r.os]

\* D1 is a data value, a value of an ignore register or a memory value.
OperandOfKind(kind) ==
    [Nd EXCEPT !.mode = IF kind = "memory" THEN "M" ELSE "data",
               !.req = IF kind = "ignore" THEN {"ignore"} ELSE {"normal"}]

ACGraph(kind, ins, tuple, r1, r2, duse) ==
    LET n_irn == 3
        res   == IF tuple THEN 4 ELSE n_irn
        head  == <<OperandOfKind(kind), Nd,
                   IF tuple THEN [Nd EXCEPT !.mode = "T", !.ins = ins]
                   ELSE WithReq([Nd EXCEPT !.ins = ins], r1)>>
        projs == IF tuple
                 THEN <<WithReq([Nd EXCEPT !.op = "Proj", !.ins = <<n_irn>>, !.pn = 0], r1),
                        WithReq([Nd EXCEPT !.op = "Proj", !.ins = <<n_irn>>, !.pn = 1], r2)>>
                 ELSE <<>>
        user  == <<[Nd EXCEPT !.ins = IF duse \in {"block", "both"}
                                      THEN <<res, 1>> ELSE <<res>>],
                   [Nd EXCEPT !.ins = IF duse \in {"succ", "both"}
                                      THEN <<res, 1>> ELSE <<res>>]>>
    IN  head \o projs \o user

\* The requirements of U: normal, or, when U reads D1, must_be_different
\* from D1, its second input.
UserReqs(duse) ==
    {r \in Reqs : r.od = 0 \/ (duse \in {"block", "both"} /\ r.od = 2 /\ r.os = 0)}

ACSched(tuple, din) ==
    (IF din THEN <<1>> ELSE <<>>) \o <<3, IF tuple THEN 6 ELSE 4>>

InitAC ==
    \E kind \in {"data", "ignore", "memory"}, ins \in [1..MaskBits -> {1, 2}],
       tuple, din \in BOOLEAN, duse \in {"none", "block", "succ", "both"} :
      \E r1 \in (IF tuple THEN PlainReqs ELSE Reqs),
         r2 \in (IF tuple THEN PlainReqs ELSE {CHOOSE r \in Reqs : r.od = 0}),
         ru \in UserReqs(duse),
         ord \in (IF tuple THEN {<<4, 5>>, <<5, 4>>} ELSE {<<>>}) :
        /\ irn = [ACGraph(kind, ins, tuple, r1, r2, duse)
                     EXCEPT ![IF tuple THEN 6 ELSE 4] = WithReq(@, ru)]
        /\ sched = ACSched(tuple, din)
        /\ eorder = ord
        /\ allocatable = Regs
        /\ Idle

\* --------------------------------------------------- assure_constraints
lowerVars == <<allocatable, lv, free_register_map, visited, perm_stayed, n_moved, arity,
               pairs, keep_perm, moves, entry, pushed>>

OpSetKeys(op_set) == {e.key : e \in op_set}

\* assure_constraints up to the block walk.
ACBegin ==
    /\ pc \in {"idle", "done"}
    /\ run < MaxRuns
    /\ run' = run + 1
    /\ snap' = [g |-> irn, s |-> sched]
    /\ cenv' = {}
    /\ cur' = sched[Len(sched)]
    /\ pc' = "ac_walk"
    /\ UNCHANGED <<irn, sched, eorder, todo, lowerVars>>

\* One iteration of sched_foreach_reverse in assure_constraints_walker.
assure_constraints_walker ==
    /\ pc = "ac_walk"
    /\ LET st == WalkNode([g |-> irn, s |-> sched, env |-> cenv], eorder, cur)
           nx == sched_prev(st.s, cur)
       IN  /\ irn' = st.g
           /\ sched' = st.s
           /\ cenv' = st.env
           /\ cur' = nx
           /\ pc' = IF nx = Block THEN "ac_melt" ELSE "ac_walk"
           /\ todo' = IF nx = Block THEN OpSetKeys(st.env) ELSE todo
    /\ UNCHANGED <<eorder, run, snap, lowerVars>>

\* melt_copykeeps at one entry of op_set.  The order in which the node set
\* yields the CopyKeeps is not fixed by belower.c: any order.
melt_copykeeps(key) ==
    /\ pc = "ac_melt"
    /\ key \in todo
    /\ LET e   == CHOOSE x \in cenv : x.key = key
           cks == {cp \in e.copies : be_is_CopyKeep(irn, cp)}
       IN  \E ck_arr \in InjSeqs(Cardinality(cks), cks) :
              LET st == MeltLoop([g |-> irn, s |-> sched, copies |-> e.copies,
                                  obst |-> <<>>],
                                 ck_arr, {}, 1)
              IN  /\ irn' = st.g
                  /\ sched' = st.s
                  /\ cenv' = (cenv \ {e}) \cup {[e EXCEPT !.copies = st.copies]}
    /\ todo' = todo \ {key}
    /\ UNCHANGED <<eorder, pc, run, cur, snap, lowerVars>>

\* melt_copykeeps has visited every entry.
MeltDone ==
    /\ pc = "ac_melt"
    /\ todo = {}
    /\ pc' = "ac_ssa"
    /\ todo' = OpSetKeys(cenv)
    /\ UNCHANGED <<irn, sched, eorder, cenv, run, cur, snap, lowerVars>>

\* The body of the last loop of assure_constraints at one entry: SSA
\* reconstruction for the operand and its copies, then the CopyKeeps left
\* without users become Keeps.
IntroduceCopies(key) ==
    /\ pc = "ac_ssa"
    /\ key \in todo
    /\ LET e  == CHOOSE x \in cenv : x.key = key
           g1 == be_ssa_construction_fix_users(irn, sched, key, e.copies)
           st == DowngradeLoop([g |-> g1, s |-> sched], e.copies)
       IN  /\ irn' = st.g
           /\ sched' = st.s
    /\ todo' = todo \ {key}
    /\ UNCHANGED <<eorder, cenv, pc, run, cur, snap, lowerVars>>

\* The end of assure_constraints: the environment is destroyed.
ACFinish ==
    /\ pc = "ac_ssa"
    /\ todo = {}
    /\ pc' = "done"
    /\ UNCHANGED <<irn, sched, eorder, cenv, run, todo, cur, snap, lowerVars>>

NextAC ==
    \/ ACBegin
    \/ assure_constraints_walker
    \/ \E key \in todo : melt_copykeeps(key)
    \/ MeltDone
    \/ \E key \in todo : IntroduceCopies(key)
    \/ ACFinish

SpecAC == InitAC /\ [][NextAC]_vars

\* ------------------------------------------------- register simulation
\* What the emitted code does to a register file rf (register -> value):
\* a Copy writes to its register the content of its operand's register, a
\* Perm writes to the register of each of its Projs the content its input
\* of that number had before the Perm, any other instruction defines its
\* own value.
ExecNode(g, n, rf) ==
    IF g[n].op = "Copy"
    THEN [rf EXCEPT ![g[n].reg] = rf[g[g[n].ins[1]].reg]]
    ELSE IF g[n].op = "Perm"
    THEN [r \in Regs |->
            IF \E p \in Users(g, n) : g[p].reg = r
            THEN rf[g[g[n].ins[g[CHOOSE p \in Users(g, n) : g[p].reg = r].pn + 1]].reg]
            ELSE rf[r]]
    ELSE IF g[n].reg \in Regs /\ g[n].cls = "gp" THEN [rf EXCEPT ![g[n].reg] = n]
    ELSE rf

RECURSIVE Exec(_, _, _)
Exec(g, nodes, rf) ==
    IF nodes = <<>> THEN rf ELSE Exec(g, Tail(nodes), ExecNode(g, Head(nodes), rf))

\* The slots of Perm p in graph g: input node, its register, the register
\* of the slot's Proj.
Slots(g, p) ==
    {[in_node |-> g[p].ins[g[q].pn + 1], in_reg |-> g[g[p].ins[g[q].pn + 1]].reg,
      out_reg |-> g[q].reg, out_node |-> q] : q \in Users(g, p)}

\* ------------------------------------------------------------------ claims
Lowered == pc = "lowered"

\* The register file on entry to lower_perm_node: each input register of
\* the Perm holds its input value (0 elsewhere).
EntryFile ==
    [r \in Regs |->
        IF \E sl \in Slots(entry.g, cur) : sl.in_reg = r
        THEN (CHOOSE sl \in Slots(entry.g, cur) : sl.in_reg = r).in_node
        ELSE 0]

\* The nodes lower_perm_node emitted, and the Perm if it kept it, in
\* schedule order.
EmittedCode == SelectSeq(sched, LAMBDA n : n > Len(entry.g) \/ n = cur)

\* C1: for a Perm with pairwise distinct input and pairwise distinct output
\* registers, executing what lower_perm_node leaves in the schedule (its
\* Copies and 2-ary swap Perms, or the Perm it kept) on a register file
\* holding the input values leaves every output register holding the input
\* value of its slot; an identity slot's register keeps its value.
C1_LoweringRealisesPerm ==
    Lowered =>
        \A sl \in Slots(entry.g, cur) :
            Exec(irn, EmittedCode, EntryFile)[sl.out_reg] = sl.in_node

\* A lowered Perm decomposed into two Moves, one realised by a swap and one
\* by a copy.
C1_Witness ==
    /\ Lowered
    /\ Len(moves) = 2
    /\ \E n \in SeqSet(EmittedCode) : irn[n].op = "Copy"
    /\ \E n \in SeqSet(EmittedCode) : irn[n].op = "Perm"

\* Perm p of graph g has two slots that exchange two registers.
IsSwap(g, p) ==
    /\ Len(g[p].ins) = 2
    /\ Cardinality(Slots(g, p)) = 2
    /\ \E a, b \in Slots(g, p) :
          /\ a.in_reg # b.in_reg
          /\ a.out_reg = b.in_reg
          /\ b.out_reg = a.in_reg

ScheduledPerms == {p \in AllPerms(irn) : sched_is_scheduled(sched, p)}

\* C2: when lower_nodes_after_ra has returned, every Perm left in the
\* schedule has exactly 2 inputs; a Perm that was there when the run began
\* is left only as a Perm of arity 2 whose slots exchange two registers.
C2_NoBigPermRemains ==
    pc = "done" =>
        \A p \in AllPerms(irn) :
            /\ sched_is_scheduled(sched, p)
            /\ Len(irn[p].ins) = 2
            /\ (p <= Len(snap.g) => IsSwap(irn, p))

\* A finished first run that lowered a Perm of three inputs into two swap
\* Perms.
C2_Witness ==
    /\ pc = "done"
    /\ run = 1
    /\ Len(snap.g[cur].ins) = 3
    /\ Cardinality({p \in ScheduledPerms : p > Len(snap.g)}) = 2

\* C3 (as claimed): a second run of lower_nodes_after_ra leaves the graph,
\* the schedule and the register assignment as the first run left them.
C3_SecondRunIsNoOp ==
    (pc = "done" /\ run = 2) => (irn = snap.g /\ sched = snap.s)

\* Every slot of the Perm entering lower_perm_node is an identity slot.
EntryIsIdentity == \A sl \in Slots(entry.g, cur) : sl.in_reg = sl.out_reg

\* C4: lowering a Perm all of whose slots have the same input and output
\* register removes the Perm from schedule and graph, makes every user of a
\* Proj read the slot's input node, and creates no node.
C4_IdentityPermVanishes ==
    (Lowered /\ EntryIsIdentity) =>
        /\ irn[cur].op = "Deleted"
        /\ sched = sched_remove(entry.s, cur)
        /\ Len(irn) = Len(entry.g)
        /\ \A sl \in Slots(entry.g, cur) :
              /\ irn[sl.out_node].op = "Deleted"
              /\ \A u \in Users(entry.g, sl.out_node) :
                    irn[u].ins = [i \in 1..Len(entry.g[u].ins) |->
                                     IF entry.g[entry.g[u].ins[i]].op = "Proj"
                                        /\ entry.g[entry.g[u].ins[i]].ins = <<cur>>
                                     THEN entry.g[cur].ins[entry.g[entry.g[u].ins[i]].pn + 1]
                                     ELSE entry.g[u].ins[i]]

\* A lowered identity Perm of at least two slots whose Projs had a user.
C4_Witness ==
    /\ Lowered
    /\ EntryIsIdentity
    /\ Len(entry.g[cur].ins) >= 2
    /\ \A sl \in Slots(entry.g, cur) : Users(entry.g, sl.out_node) # {}

\* C9: lowering a Perm of arity 2 whose two slots exchange two registers
\* changes neither graph nor schedule: Perm, Projs and registers stay, no
\* node is emitted.
C9_PureSwapUnchanged ==
    (Lowered /\ IsSwap(entry.g, cur)) => (irn = entry.g /\ sched = entry.s)

C9_Witness ==
    /\ Lowered
    /\ IsSwap(entry.g, cur)
    /\ cur <= Len(snap.g)
    /\ run = 1

\* The node holding register r on entry to lower_perm_node.
EntryHolder(r) == (CHOOSE sl \in Slots(entry.g, cur) : sl.in_reg = r).in_node

\* The Proj assigned register r on entry to lower_perm_node.
EntryProj(r) == (CHOOSE sl \in Slots(entry.g, cur) : sl.out_reg = r).out_node

ScratchOf(p) == get_free_register(free_register_map, p)

\* Cycle Moves of at least three registers lowered with a scratch register.
ScratchCycles ==
    {j \in 1..Len(moves) : /\ moves[j].type = "CYCLE"
                           /\ Len(moves[j].elems) >= 3
                           /\ ScratchOf(cur) # NoReg}

IsCopyOf(n, op, reg) == irn[n].op = "Copy" /\ irn[n].ins = <<op>> /\ irn[n].reg = reg

\* C10: a cycle [r0..r(n-1)], n >= 3, lowered with scratch register s gives
\* exactly n+1 Copies, adjacent in the schedule in this order: the save
\* copy of the holder of r(n-1) in s, for i = n-2 down to 0 a copy of the
\* holder of r(i) in r(i+1), the restore copy of the save copy in r0; the
\* users of the Proj for r0 read the restore copy.
C10_CycleCopiesOrder ==
    Lowered =>
        \A j \in ScratchCycles :
            LET e  == moves[j].elems
                n  == Len(e)
                lo == moves[j].lo
                hi == moves[j].hi
            IN  /\ hi - lo + 1 = n + 1
                /\ \A d \in 0..(n - 1) :
                      SchedPos(sched, lo + d + 1) = SchedPos(sched, lo + d) + 1
                /\ IsCopyOf(lo, EntryHolder(e[n]), ScratchOf(cur))
                /\ \A d \in 1..(n - 1) :
                      IsCopyOf(lo + d, EntryHolder(e[n - d]), e[n - d + 1])
                /\ IsCopyOf(hi, lo, e[1])
                /\ \A u \in Users(entry.g, EntryProj(e[1])) : hi \in SeqSet(irn[u].ins)

C10_Witness ==
    /\ Lowered
    /\ ScratchCycles # {}
    /\ Users(entry.g, EntryProj(moves[1].elems[1])) # {}

\* C6: push_through_perm returns true exactly when the Perm is still in the
\* graph and schedule after the call, and false exactly when every slot of
\* the Perm was pushed through and the Perm was removed.
C6_PushReturnValue ==
    pc = "pushed" =>
        /\ (perm_stayed # 0) <=>
               (be_is_Perm(irn, cur) /\ sched_is_scheduled(sched, cur))
        /\ (perm_stayed = 0) <=>
               /\ n_moved = Len(pushed.g[cur].ins)
               /\ ~be_is_Perm(irn, cur)
               /\ ~sched_is_scheduled(sched, cur)

\* A call that pushed every slot through and removed the Perm.
C6_Witness ==
    /\ pc = "pushed"
    /\ perm_stayed = 0
    /\ n_moved >= 1
    /\ be_is_Perm(pushed.g, cur)

\* In a second run, a Perm through which nothing is pushed is left as it is:
\* the second run changes the code only after push_through_perm hoisted a
\* node the first run left behind.
SecondRunChangesOnlyAfterPush ==
    [][(run = 2 /\ pc \in {"pushed", "loop"} /\ n_moved = 0)
           => (irn' = irn /\ sched' = sched)]_vars

\* The values live immediately before Perm p: defined before p and read by
\* p, by a node behind p in the block, or in another block.
LiveBefore(p) == LiveAfter(irn, sched, SchedPos(sched, p) - 1)

\* The free-register map as find_free_register filled it, the code not yet
\* changed.
FreeMapFresh ==
    /\ free_register_map.init
    /\ irn = snap.g
    /\ sched = snap.s

\* C5: a register r recorded as free for a Perm P is allocatable, is not
\* the register of an input of P and is not the register of a value live
\* immediately before P.
C5_ScratchRegisterSound ==
    FreeMapFresh =>
        \A e \in free_register_map.map :
            LET p == e[1]
                r == e[2]
                cls == irn[irn[p].ins[1]].cls
            IN  /\ r \in allocatable
                /\ \A i \in 1..Len(irn[p].ins) : irn[irn[p].ins[i]].reg # r
                /\ \A v \in LiveBefore(p) : irn[v].cls = cls => irn[v].reg # r

\* A register is recorded for a Perm although a value that is not an input
\* of it is live through it, in a register below the recorded one, and
\* another value is defined behind it.
C5_Witness ==
    /\ FreeMapFresh
    /\ \E e \in free_register_map.map :
          \E v \in LiveBefore(e[1]) :
              /\ v \notin SeqSet(irn[e[1]].ins)
              /\ irn[v].cls = irn[irn[e[1]].ins[1]].cls
              /\ irn[v].reg < e[2]
              /\ \E u \in LiveEnd(irn, sched) : u \notin LiveBefore(e[1])

\* The values with a requirement to differ from an operand, and the operand,
\* to which gen_assure_different_pattern applies in graph g with schedule
\* s: [n, d] with n a scheduled data node or a data Proj of a scheduled
\* node, d a data, non-ignore operand that the mask of n selects, the
\* should_be_same shortcut not applying.
Constrained(g, s) ==
    {c \in [n : 1..Len(g), d : 1..Len(g)] :
        /\ g[c.n].op # "Deleted"
        /\ sched_is_scheduled(s, skip_Proj(g, c.n))
        /\ (g[c.n].op = "Proj" \/ g[c.n].mode # "T")
        /\ mode_is_datab(g, c.n)
        /\ "must_be_different" \in g[c.n].req
        /\ ~SameShortcut(g, c.n, skip_Proj(g, c.n))
        /\ \E i \in 0..(Len(g[skip_Proj(g, c.n)].ins) - 1) :
              Bit(g[c.n].od, i) /\ g[skip_Proj(g, c.n)].ins[i + 1] = c.d
        /\ mode_is_datab(g, c.d)
        /\ ~arch_irn_is_ignore(g, c.d)}

\* The block walk of assure_constraints has just ended.
AfterBlockWalk == pc = "ac_melt" /\ todo = OpSetKeys(cenv)

\* cpy is a dont_spill Copy of d scheduled in front of the node of n with
\* only Copies between.
CopyInFront(cpy, c) ==
    LET at == skip_Proj(irn, c.n)
    IN  /\ be_is_Copy(irn, cpy)
        /\ irn[cpy].ins = <<c.d>>
        /\ "dont_spill" \in irn[cpy].flags
        /\ sched_is_scheduled(sched, cpy)
        /\ SchedPos(sched, cpy) < SchedPos(sched, at)
        /\ \A i \in (SchedPos(sched, cpy) + 1)..(SchedPos(sched, at) - 1) :
              be_is_Copy(irn, sched[i])

\* keep is a CopyKeep or Keep whose operands are cpy and n.
KeepsCopyAnd(keep, cpy, c) ==
    /\ be_is_CopyKeep(irn, keep) \/ be_is_Keep(irn, keep)
    /\ Len(irn[keep].ins) = 2
    /\ SeqSet(irn[keep].ins) = {cpy, c.n}
    /\ sched_is_scheduled(sched, keep)

\* cpy and keep are in the copies of the op_set entry of d.
RecordedUnder(d, cpy, keep) ==
    \E e \in cenv : e.key = d /\ cpy \in e.copies /\ keep \in e.copies

\* C8 (as claimed): after the block walk, for every constrained value N and
\* operand D there are a dont_spill Copy of D in front of N with only
\* Copies between and a CopyKeep or Keep of that copy and N scheduled
\* immediately after N, both recorded in the environment under D.
C8_PatternKeepImmediatelyAfter ==
    AfterBlockWalk =>
        \A c \in Constrained(snap.g, snap.s) :
            \E cpy, keep \in 1..Len(irn) :
                /\ CopyInFront(cpy, c)
                /\ KeepsCopyAnd(keep, cpy, c)
                /\ SchedPos(sched, keep) = SchedPos(sched, skip_Proj(irn, c.n)) + 1
                /\ RecordedUnder(c.d, cpy, keep)

\* C8 (amended): as claimed, but the CopyKeep or Keep is scheduled after N
\* with only Keeps and CopyKeeps between N and it.
C8_PatternKeepAfter ==
    AfterBlockWalk =>
        \A c \in Constrained(snap.g, snap.s) :
            \E cpy, keep \in 1..Len(irn) :
                LET at == SchedPos(sched, skip_Proj(irn, c.n))
                IN  /\ CopyInFront(cpy, c)
                    /\ KeepsCopyAnd(keep, cpy, c)
                    /\ SchedPos(sched, keep) > at
                    /\ \A i \in (at + 1)..(SchedPos(sched, keep) - 1) :
                          be_is_CopyKeep(irn, sched[i]) \/ be_is_Keep(irn, sched[i])
                    /\ RecordedUnder(c.d, cpy, keep)

\* The block walk has ended for an instruction that must differ from two
\* operands: the keep of the first operand is not next to the instruction.
C8_Witness ==
    /\ AfterBlockWalk
    /\ run = 1
    /\ \E c1, c2 \in Constrained(snap.g, snap.s) :
          /\ c1.n = c2.n /\ c1.d # c2.d
          /\ \E keep \in 1..Len(irn) :
                /\ be_is_CopyKeep(irn, keep)
                /\ irn[keep].ins[2] = c1.n
                /\ SchedPos(sched, keep) = SchedPos(sched, skip_Proj(irn, c1.n)) + 2

\* The second run of assure_constraints has returned.
SecondRunDone == pc = "done" /\ run = 2

\* The run created no node and left the schedule as it was.
RunCreatedNothing == Len(irn) = Len(snap.g) /\ sched = snap.s

\* C7 (as claimed): a second run of assure_constraints on the graph the
\* first run left creates no further Copy, CopyKeep or Keep and leaves the
\* schedule unchanged.
C7_SecondRunCreatesNothing == SecondRunDone => RunCreatedNothing

\* C7 (amended): a second run of assure_constraints creates no node and
\* leaves the schedule unchanged exactly when no scheduled value has a
\* must_be_different requirement that selects a data-mode, non-ignore
\* operand without the should_be_same shortcut applying.
C7_SecondRunNoOpIffUnconstrained ==
    SecondRunDone => (RunCreatedNothing <=> Constrained(snap.g, snap.s) = {})

\* The second run has copied the copy that the first run inserted.
C7_Witness ==
    /\ SecondRunDone
    /\ Constrained(snap.g, snap.s) # {}
    /\ \E cpy \in (Len(snap.g) + 1)..Len(irn) :
          /\ be_is_Copy(irn, cpy)
          /\ be_is_Copy(snap.g, irn[cpy].ins[1])

\* The Perm with inputs in r1, r2, r3 and Projs assigned r2, r3, r1, lowered
\* with scratch register r4.
RotateInput ==
    /\ Lowered
    /\ Len(entry.g[cur].ins) = 3
    /\ {<<sl.in_reg, sl.out_reg>> : sl \in Slots(entry.g, cur)}
           = {<<1, 2>>, <<2, 3>>, <<3, 1>>}
    /\ ScratchOf(cur) = 4

\* Exactly four nodes were emitted, Copies save := Copy(holder(e[3])) in r4,
\* Copy(holder(e[2])) in e[3], Copy(holder(e[1])) in e[2], Copy(save) in
\* e[1], scheduled in this order right after the predecessor the Perm had,
\* and the Perm is deleted.
RotateCopies(e) ==
    LET L == Len(entry.g)
        p == SchedPos(entry.s, sched_prev(entry.s, cur))
    IN  /\ Len(irn) = L + 4
        /\ IsCopyOf(L + 1, EntryHolder(e[3]), 4)
        /\ IsCopyOf(L + 2, EntryHolder(e[2]), e[3])
        /\ IsCopyOf(L + 3, EntryHolder(e[1]), e[2])
        /\ IsCopyOf(L + 4, L + 1, e[1])
        /\ \A d \in 1..4 : SchedPos(sched, L + d) = p + d
        /\ SchedPos(sched, sched_prev(entry.s, cur)) = p
        /\ ~be_is_Perm(irn, cur)
        /\ ~sched_is_scheduled(sched, cur)

\* The register of the Proj of the Perm that is enumerated first when the
\* pair list is built.
FirstEnumeratedOut == entry.g[OutEdges(entry.g, eorder, cur)[1]].reg

\* C11 as stated: whatever the order the Projs are enumerated in, the copies
\* are t := Copy(c) in r4, Copy(b) in r3, Copy(a) in r2, Copy(t) in r1 (the
\* cycle starts at r1).
C11_RotateStartsAtR1 == RotateInput => RotateCopies(<<1, 2, 3>>)

\* C11: the cycle starts at the output register f of the Proj enumerated
\* first: the four copies are those of the cycle [f, f+1, f+2] (registers
\* taken cyclically in r1..r3), so they are the ones of the cycle [r1, r2,
\* r3] exactly when the Proj assigned r1 is enumerated first.
C11_RotateStartsAtFirstProj ==
    RotateInput =>
        LET f == FirstEnumeratedOut
        IN  /\ RotateCopies(<<f, (f % 3) + 1, ((f + 1) % 3) + 1>>)
            /\ RotateCopies(<<1, 2, 3>>) <=> f = 1

\* The Proj assigned r2 is enumerated first and the cycle is lowered.
C11_Witness == RotateInput /\ FirstEnumeratedOut = 2

\* Cycle Moves that lower_perm_node handed to split_cycle_into_swaps: the
\* Perm was not kept and there is no scratch register or the cycle has two
\* registers.
SwapCycles ==
    {j \in 1..Len(moves) : /\ moves[j].type = "CYCLE"
                           /\ ~KeepsPerm(moves[j], arity)
                           /\ (ScratchOf(cur) = NoReg \/ Len(moves[j].elems) <= 2)}

\* The Proj of node x with number pn, NoNode if there is not exactly one.
ProjAt(x, pn) ==
    IF Cardinality({q \in Users(irn, x) : irn[q].op = "Proj" /\ irn[q].pn = pn}) = 1
    THEN CHOOSE q \in Users(irn, x) : irn[q].op = "Proj" /\ irn[q].pn = pn
    ELSE NoNode

\* C12: a cycle [r0..r(n-1)] lowered by swaps gives exactly n-1 new Perms of
\* two inputs (and n-2 new Projs), created for i = n-2 down to 0 and
\* adjacent in the schedule in creation order.  The swap for i has exactly
\* two Projs, number 0 assigned r(i+1) and number 1 assigned r(i); for
\* i > 0 the Proj number 1 is a new Proj that is the second input of the
\* swap for i-1, for i = 0 it is the Proj the Perm had for r0; the Proj
\* number 0 is the Proj the Perm had for r(i+1).  The Perm is deleted.
C12_CycleSwaps ==
    Lowered =>
        \A j \in SwapCycles :
            LET e  == moves[j].elems
                n  == Len(e)
                lo == moves[j].lo
                hi == moves[j].hi
                xchg(i) == lo + 2 * (n - 2 - i)
            IN  /\ hi - lo + 1 = (n - 1) + (n - 2)
                /\ Cardinality({x \in lo..hi : be_is_Perm(irn, x)}) = n - 1
                /\ \A i \in 0..(n - 2) :
                      /\ be_is_Perm(irn, xchg(i))
                      /\ Len(irn[xchg(i)].ins) = 2
                      /\ irn[xchg(i)].ins[1] = EntryHolder(e[i + 1])
                      /\ Cardinality(Users(irn, xchg(i))) = 2
                      /\ ProjAt(xchg(i), 0) = EntryProj(e[i + 2])
                      /\ irn[ProjAt(xchg(i), 0)].reg = e[i + 2]
                      /\ ProjAt(xchg(i), 1) # NoNode
                      /\ irn[ProjAt(xchg(i), 1)].reg = e[i + 1]
                      /\ IF i > 0
                         THEN /\ ProjAt(xchg(i), 1) = xchg(i) + 1
                              /\ irn[xchg(i - 1)].ins[2] = ProjAt(xchg(i), 1)
                              /\ SchedPos(sched, xchg(i - 1)) = SchedPos(sched, xchg(i)) + 1
                         ELSE ProjAt(xchg(i), 1) = EntryProj(e[1])
                /\ irn[xchg(n - 2)].ins[2] = EntryHolder(e[n])
                /\ ~be_is_Perm(irn, cur)
                /\ ~sched_is_scheduled(sched, cur)

\* A cycle of three registers lowered by swaps: two swaps, one new Proj.
C12_Witness ==
    /\ Lowered
    /\ \E j \in SwapCycles : Len(moves[j].elems) = 3

\* The chain Moves lower_perm_node decomposed the Perm into.
ChainMoves == {j \in 1..Len(moves) : moves[j].type = "CHAIN"}

\* C13: a chain [r0..r(n-1)] gives exactly n-1 Copies, adjacent in the
\* schedule in this order: for i = n-2 down to 0 a copy of the holder of
\* r(i) in r(i+1).  No copy writes a register that a copy of the chain
\* scheduled after it reads, the users of the Proj for r(i+1) read its copy,
\* the Proj is gone and the Perm is deleted.
C13_ChainCopiesOrder ==
    Lowered =>
        \A j \in ChainMoves :
            LET e  == moves[j].elems
                n  == Len(e)
                lo == moves[j].lo
                hi == moves[j].hi
                cpy(i) == lo + (n - 2 - i)
            IN  /\ hi - lo + 1 = n - 1
                /\ \A i \in 0..(n - 2) :
                      /\ IsCopyOf(cpy(i), EntryHolder(e[i + 1]), e[i + 2])
                      /\ sched_is_scheduled(sched, cpy(i))
                      /\ i > 0 => SchedPos(sched, cpy(i - 1)) = SchedPos(sched, cpy(i)) + 1
                      /\ \A u \in Users(entry.g, EntryProj(e[i + 2])) :
                            cpy(i) \in SeqSet(irn[u].ins)
                      /\ irn[EntryProj(e[i + 2])].op = "Deleted"
                /\ \A x, y \in lo..hi :
                      SchedPos(sched, x) < SchedPos(sched, y)
                          => irn[x].reg # irn[irn[y].ins[1]].reg
                /\ ~be_is_Perm(irn, cur)
                /\ ~sched_is_scheduled(sched, cur)

\* A chain of three registers lowered to two copies.
C13_Witness ==
    /\ Lowered
    /\ \E j \in ChainMoves : Len(moves[j].elems) = 3

\* push_through_perm was called on a Perm that satisfies every condition
\* for moving its input number i: the input is the node scheduled right in
\* front of the Perm, it does not modify the flags, has a normal
\* requirement and no operand of the register class of the Perm.
Hoistable(g, p, n) ==
    /\ "modify_flags" \notin g[n].flags
    /\ g[n].req = {"normal"}
    /\ \A i \in 1..Len(g[n].ins) :
          ~arch_irn_consider_in_reg_alloc(g, g[OutEdges(g, eorder, p)[1]].cls, g[n].ins[i])

\* The Proj of Perm p for input number i (0-based) in graph g.
ProjFor(g, p, i) == CHOOSE q \in Users(g, p) : g[q].pn = i

SoleInputPushed ==
    /\ pc = "pushed"
    /\ Len(pushed.g[cur].ins) = 1
    /\ sched_prev(pushed.s, cur) = pushed.g[cur].ins[1]
    /\ Hoistable(pushed.g, cur, pushed.g[cur].ins[1])

\* C14: push_through_perm on a Perm of one input N that is scheduled right
\* in front of it, is plain and reads nothing of the Perm's class: N takes
\* the place the Perm had in the schedule, N has the register of the Proj,
\* every user of the Proj reads N instead, the Proj and the Perm are gone
\* from graph and schedule, and 0 is returned.
C14_SoleInputTakesPermPlace ==
    SoleInputPushed =>
        LET N    == pushed.g[cur].ins[1]
            proj == ProjFor(pushed.g, cur, 0)
        IN  /\ perm_stayed = 0
            /\ sched = sched_remove(pushed.s, cur)
            /\ sched_next(sched, N) = sched_next(pushed.s, cur)
            /\ irn[N].reg = pushed.g[proj].reg
            /\ \A u \in Users(pushed.g, proj) :
                  irn[u].ins = [a \in 1..Len(pushed.g[u].ins) |->
                                   IF pushed.g[u].ins[a] = proj THEN N
                                   ELSE pushed.g[u].ins[a]]
            /\ Users(irn, proj) = {}
            /\ irn[proj].op = "Deleted"
            /\ irn[cur].op = "Deleted"
            /\ ~sched_is_scheduled(sched, cur)

\* The case happens with a Proj that has a user and a register other than
\* the one N was in.
C14_Witness ==
    /\ SoleInputPushed
    /\ Users(pushed.g, ProjFor(pushed.g, cur, 0)) # {}
    /\ pushed.g[ProjFor(pushed.g, cur, 0)].reg # pushed.g[pushed.g[cur].ins[1]].reg

\* The pair list lower_perm_node works on is no permutation: the input
\* register of some pair is the output register of no pair.
ChainSources ==
    {pairs[i].in_reg : i \in {i \in 1..Len(pairs) :
                                 \A j \in 1..Len(pairs) : pairs[j].out_reg # pairs[i].in_reg}}

NonPermutation == pc \in {"loop", "lowered"} /\ ChainSources # {}

\* C15 as stated: when the pair list is no permutation lower_perm_node stops
\* with an error: it emits no node and does not get to its end.
C15_NonPermutationHalts ==
    NonPermutation => (Len(irn) = Len(entry.g) /\ pc # "lowered")

\* C15: when the pair list is no permutation, lowering does not stop: every
\* call of get_perm_move_info finds a Move, and when lower_perm_node is done
\* every register that is input of a pair and output of none is the first
\* register of a chain Move of n registers, lowered to n-1 scheduled
\* Copies; the Perm is deleted.
C15_NonPermutationGivesChain ==
    NonPermutation =>
        /\ (pc = "loop" /\ get_n_unchecked_pairs(pairs) > 0)
               => get_perm_move_info(pairs, FirstUnchecked(pairs)).ok
        /\ Lowered =>
              /\ \A r \in ChainSources :
                    \E j \in ChainMoves :
                        /\ moves[j].elems[1] = r
                        /\ moves[j].hi - moves[j].lo + 1 = Len(moves[j].elems) - 1
                        /\ \A x \in moves[j].lo..moves[j].hi :
                              be_is_Copy(irn, x) /\ sched_is_scheduled(sched, x)
              /\ ~be_is_Perm(irn, cur)
              /\ ~sched_is_scheduled(sched, cur)

\* A Perm lowered whose pair list had a chain of three registers and code
\* was emitted for it.
C15_Witness ==
    /\ Lowered
    /\ NonPermutation
    /\ \E j \in ChainMoves : Len(moves[j].elems) = 3 /\ moves[j].hi > moves[j].lo

\* In the state push_through_perm was called in, the k nodes scheduled
\* right in front of the Perm are all inputs of the Perm that satisfy every
\* condition for being moved.
HoistRun(k) ==
    LET g   == pushed.g
        s   == pushed.s
        pos == SchedPos(s, cur)
        one_proj == OutEdges(g, eorder, cur)[1]
        frontier == Frontier(g, s, lv.live_end, cur, g[one_proj].cls, one_proj)
    IN  /\ k < pos
        /\ \A d \in 1..k :
              /\ \E q \in Users(g, cur) : g[cur].ins[g[q].pn + 1] = s[pos - d]
              /\ sched_comes_after(s, frontier, s[pos - d])
              /\ Hoistable(g, cur, s[pos - d])

\* C16 as stated: when the k >= 2 nodes right in front of the Perm are all
\* inputs that can be moved, one call of push_through_perm moves all k of
\* them and the Perm has k inputs less (or is gone).
C16_HoistsWholeRun ==
    pc = "pushed" =>
        \A k \in 2..MaxArity :
            HoistRun(k) =>
                /\ n_moved >= k
                /\ be_is_Perm(irn, cur) =>
                      Len(irn[cur].ins) <= Len(pushed.g[cur].ins) - k

\* One call of push_through_perm moves at most one node.
PushMovesAtMostOne == n_moved <= 1

\* push_through_perm and, if the Perm stayed, lower_perm_node are done with
\* the Perm cur, a Perm the register allocation left (no swap created by
\* the lowering of another Perm, which reads Projs of the swap before it
\* and belongs to the code emitted for that Perm).
PushedAndLowered ==
    /\ Lowered \/ (pc = "pushed" /\ perm_stayed = 0)
    /\ \A i \in 1..Len(pushed.g[cur].ins) : pushed.g[pushed.g[cur].ins[i]].op = "Op"

\* The register file at the start of the block, as far as the Perm is
\* concerned: the inputs of the Perm defined in other blocks are in their
\* registers.
BlockEntryFile ==
    LET g   == pushed.g
        ext == {i \in 1..Len(g[cur].ins) : ~sched_is_scheduled(pushed.s, g[cur].ins[i])}
    IN  [r \in Regs |->
            IF \E i \in ext : g[g[cur].ins[i]].reg = r
            THEN g[cur].ins[CHOOSE i \in ext : g[g[cur].ins[i]].reg = r]
            ELSE 0]

\* The schedule in front of node u (all of it for a node of another block).
CodeBefore(u) ==
    IF sched_is_scheduled(sched, u) THEN SubSeq(sched, 1, SchedPos(sched, u) - 1) ELSE sched

\* C17: after push_through_perm and lower_perm_node, every operand of a
\* node that was a Proj of the Perm is now a node assigned the register of
\* that Proj, and executing the schedule up to the user leaves in that
\* register the value the Perm's slot had as input: the hoisted node
\* defines it there, the copies and swaps (with the scratch register
\* computed before the push) read no register after it was overwritten and
\* overwrite no result that is still to be read.
C17_PushAndLowerRefinePerm ==
    PushedAndLowered =>
        LET g == pushed.g
        IN  \A q \in Users(g, cur) : \A u \in Users(g, q) :
                \A a \in 1..Len(g[u].ins) :
                    g[u].ins[a] = q =>
                        /\ irn[irn[u].ins[a]].reg = g[q].reg
                        /\ Exec(irn, CodeBefore(u), BlockEntryFile)[g[q].reg]
                               = g[cur].ins[g[q].pn + 1]

\* The first input of a Perm of three inputs was hoisted, and the Perm of
\* the two others stayed and was lowered to code.
C17_Witness ==
    /\ PushedAndLowered
    /\ Lowered
    /\ n_moved = 1
    /\ Len(pushed.g[cur].ins) = 3
    /\ pushed.g[cur].ins[1] \notin SeqSet(entry.g[cur].ins)
    /\ Len(irn) > Len(entry.g)

\* The schedule is a total order: no node occurs twice in it, and no
\* deleted node and no Proj is in it.
ScheduleIsOrder ==
    /\ \A i, j \in 1..Len(sched) : sched[i] = sched[j] => i = j
    /\ \A i \in 1..Len(sched) : irn[sched[i]].op \notin {"Deleted", "Proj"}

\* Every operand of a scheduled node exists, and if it is defined in the
\* block (a scheduled node or a Proj of one) it is scheduled in front of
\* the node.
OperandsScheduledBefore ==
    \A i \in 1..Len(sched) : \A a \in 1..Len(irn[sched[i]].ins) :
        LET o == irn[sched[i]].ins[a]
        IN  /\ irn[o].op # "Deleted"
            /\ InBlock(irn, sched, o) => SchedPos(sched, skip_Proj(irn, o)) < i

\* The nodes created since push_through_perm was called, but for Projs,
\* and the node it moved are in the schedule.
EmittedAndMovedScheduled ==
    /\ \A n \in (Len(pushed.g) + 1)..Len(irn) :
          irn[n].op # "Proj" => sched_is_scheduled(sched, n)
    /\ \A i \in 1..Len(pushed.g[cur].ins) :
          sched_is_scheduled(pushed.s, pushed.g[cur].ins[i])
              => sched_is_scheduled(sched, pushed.g[cur].ins[i])

\* C18: when push_through_perm has returned and when lower_perm_node has
\* returned, the schedule of the block is a total order holding every
\* emitted node and the moved node exactly once, and every scheduled node
\* comes behind its operands defined in the block: the hoisted node is in
\* front of the users the Proj had, every copy and swap behind the node it
\* reads.
C18_ScheduleInvariant ==
    pc \in {"pushed", "lowered"} =>
        /\ ScheduleIsOrder
        /\ OperandsScheduledBefore
        /\ EmittedAndMovedScheduled

\* A node was hoisted and the Perm that stayed was lowered to copies.
C18_Witness ==
    /\ Lowered
    /\ n_moved = 1
    /\ Len(irn) > Len(entry.g)
    /\ \E n \in 1..Len(irn) : irn[n].op = "Copy"

\* The nodes lower_perm_node put in the schedule, in the order it created
\* them (node numbers are given in creation order; Projs are not
\* scheduled).
EmittedInOrder ==
    SelectSeq([i \in 1..(Len(irn) - Len(entry.g)) |-> Len(entry.g) + i],
              LAMBDA n : irn[n].op # "Proj")

\* C19: the nodes emitted for a Perm, of all its Moves, stand in the
\* schedule one behind the other in the order they were emitted, the first
\* right behind the node that was in front of the Perm on entry, the last
\* right in front of the place of the Perm (the Perm if it was kept, else
\* the node that followed it); so the nodes of a Move follow those of the
\* Moves decomposed before it.
C19_EmittedContiguousInOrder ==
    Lowered =>
        LET E    == EmittedInOrder
            pred == sched_prev(entry.s, cur)
            p    == SchedPos(sched, pred)
            site == IF keep_perm = 1 THEN cur ELSE sched_next(entry.s, cur)
        IN  /\ pred # Block => sched_is_scheduled(sched, pred)
            /\ \A i \in 1..Len(E) : sched[p + i] = E[i]
            /\ sched[p + Len(E) + 1] = site
            /\ \A j \in 1..Len(moves) : \A j2 \in 1..Len(moves) :
                  j < j2 =>
                      \A x \in moves[j].lo..moves[j].hi, y \in moves[j2].lo..moves[j2].hi :
                          (irn[x].op # "Proj" /\ irn[y].op # "Proj")
                              => SchedPos(sched, x) < SchedPos(sched, y)

\* A Perm with a node in front of it decomposed into two Moves, each of
\* which emitted a node.
C19_Witness ==
    /\ Lowered
    /\ sched_prev(entry.s, cur) # Block
    /\ Len(moves) = 2
    /\ \A j \in 1..2 : moves[j].hi >= moves[j].lo

\* The pair's registers are neighbours in the Move (elems, type): in_reg
\* right in front of out_reg, or last and first register of a cycle.
PairInMove(pr, elems, type) ==
    \/ \E i \in 1..(Len(elems) - 1) : elems[i] = pr.in_reg /\ elems[i + 1] = pr.out_reg
    \/ type = "CYCLE" /\ elems[Len(elems)] = pr.in_reg /\ elems[1] = pr.out_reg

\* C20: the Moves lower_perm_node gets from get_perm_move_info have no
\* register in common (nor has a Move a register twice), every pair of the
\* list is in exactly one of them, and each call marks as checked exactly
\* the pairs of the Move it returns, none of which was checked before.
C20_MovesPartitionPairs ==
    /\ Lowered =>
          /\ \A j \in 1..Len(moves) :
                /\ Injective(moves[j].elems)
                /\ \A j2 \in 1..Len(moves) :
                      j # j2 => SeqSet(moves[j].elems) \cap SeqSet(moves[j2].elems) = {}
          /\ \A i \in 1..Len(pairs) :
                Cardinality({j \in 1..Len(moves) :
                                PairInMove(pairs[i], moves[j].elems, moves[j].type)}) = 1
    /\ (pc = "loop" /\ get_n_unchecked_pairs(pairs) > 0) =>
          LET m == get_perm_move_info(pairs, FirstUnchecked(pairs))
          IN  \A i \in 1..Len(pairs) :
                  /\ (m.pairs[i].checked /\ ~pairs[i].checked)
                         <=> PairInMove(pairs[i], m.elems, m.type)
                  /\ pairs[i].checked => m.pairs[i].checked

\* A pair list of three pairs decomposed into two Moves.
C20_Witness ==
    /\ Lowered
    /\ Len(pairs) = 3
    /\ Len(moves) = 2

\* The Move the next call of get_perm_move_info in lower_perm_node returns.
NextMove == get_perm_move_info(pairs, FirstUnchecked(pairs))

AtMoveCall == pc = "loop" /\ get_n_unchecked_pairs(pairs) > 0

HasPair(in_reg, out_reg) ==
    \E i \in 1..Len(pairs) : pairs[i].in_reg = in_reg /\ pairs[i].out_reg = out_reg

\* C21 as stated: a Move of two registers returned by get_perm_move_info is
\* a cycle, never a chain.
C21_TwoElementMoveIsCycle ==
    AtMoveCall => (NextMove.n_elems = 2 => NextMove.type = "CYCLE")

\* C21: a Move [r0, r1] of two registers returned by get_perm_move_info
\* contains the pair r0 -> r1; it is a cycle exactly when the pair list
\* also has the pair r1 -> r0 (a swap), and otherwise a chain: then no pair
\* writes r0 and no pair reads r1 (a single copy).
C21_TwoElementMoveCycleIffSwap ==
    AtMoveCall =>
        LET m == NextMove
        IN  m.n_elems = 2 =>
                /\ HasPair(m.elems[1], m.elems[2])
                /\ m.type = "CYCLE" <=> HasPair(m.elems[2], m.elems[1])
                /\ m.type = "CHAIN" <=>
                       /\ \A i \in 1..Len(pairs) : pairs[i].out_reg # m.elems[1]
                       /\ \A i \in 1..Len(pairs) : pairs[i].in_reg # m.elems[2]

\* get_perm_move_info is about to return a chain of two registers.
C21_Witness ==
    /\ AtMoveCall
    /\ NextMove.n_elems = 2
    /\ NextMove.type = "CHAIN"

\* C22 as stated: in a chain Move [r0..r(n-1)] the value of r(i+1) is
\* moved into r(i), and r0 is the input register of no pair.
C22_ChainFlowsTowardsFirst ==
    AtMoveCall =>
        LET m == NextMove
        IN  m.type = "CHAIN" =>
                /\ \A i \in 1..(m.n_elems - 1) : HasPair(m.elems[i + 1], m.elems[i])
                /\ \A i \in 1..Len(pairs) : pairs[i].in_reg # m.elems[1]

\* C22: in a chain Move [r0..r(n-1)] content flows from r0 towards r(n-1):
\* the pair list has the pair r(i) -> r(i+1) for each i, r0 is a source
\* (output register of no pair) and r(n-1) the sink (input register of no
\* pair); after lowering, r(i+1) holds the value r(i) held on entry.
C22_ChainFlowsTowardsLast ==
    /\ AtMoveCall =>
          LET m == NextMove
          IN  m.type = "CHAIN" =>
                  /\ \A i \in 1..(m.n_elems - 1) : HasPair(m.elems[i], m.elems[i + 1])
                  /\ \A i \in 1..Len(pairs) : pairs[i].out_reg # m.elems[1]
                  /\ \A i \in 1..Len(pairs) : pairs[i].in_reg # m.elems[m.n_elems]
    /\ Lowered =>
          \A j \in ChainMoves : \A i \in 1..(Len(moves[j].elems) - 1) :
              Exec(irn, EmittedCode, EntryFile)[moves[j].elems[i + 1]]
                  = EntryHolder(moves[j].elems[i])

\* A chain of four registers was returned and lowered to three copies.
C22_Witness ==
    /\ Lowered
    /\ \E j \in ChainMoves : Len(moves[j].elems) = 4 /\ moves[j].hi = moves[j].lo + 2

\* find_free_register is about to run for Perm p.
FinderAt(p) == pc = "find" /\ p \in todo

ClassOf(p) == irn[irn[p].ins[1]].cls

\* The registers of the Projs and of the inputs of Perm p.
ProjRegs(p) == {irn[q].reg : q \in Users(irn, p)}

InputRegs(p) == {irn[irn[p].ins[i]].reg : i \in 1..Len(irn[p].ins)}

\* The in-use set when the walk of find_free_register for p has handled
\* the nodes scheduled behind p, and when it has ended.
InUseBehind(p) ==
    LET behind == SubSeq(sched, SchedPos(sched, p) + 1, Len(sched))
        atEnd  == {irn[n].reg : n \in {m \in lv.live_end :
                       set_reg_in_use(irn, m, ClassOf(p), {}, TRUE) # {}}}
    IN  FreeWalk(irn, behind, eorder, p, ClassOf(p), atEnd, Len(behind))

InUseAt(p) == RegistersInUse(irn, sched, eorder, lv.live_end, p, ClassOf(p))

\* C23 as stated: at the Perm the walk clears the registers of its Projs
\* from the in-use set, marks the registers of its inputs and stops.
C23_FinderClearsProjRegisters ==
    \A p \in AllPerms(irn) :
        FinderAt(p) => InUseAt(p) = (InUseBehind(p) \ ProjRegs(p)) \cup InputRegs(p)

\* C23: at the Perm the walk marks the registers of its Projs as in use
\* (it does not clear them), marks the registers of its inputs as in use
\* and stops: nothing scheduled in front of the Perm changes the set.
C23_FinderMarksProjRegisters ==
    \A p \in AllPerms(irn) :
        FinderAt(p) => InUseAt(p) = InUseBehind(p) \cup ProjRegs(p) \cup InputRegs(p)

\* The finder is about to run for a Perm with a Proj in a register that is
\* no input register and is not in use behind the Perm, and in front of
\* the Perm a node reads a register that the walk does not mark.
C23_Witness ==
    \E p \in AllPerms(irn) :
        /\ FinderAt(p)
        /\ \E r \in ProjRegs(p) : r \notin InputRegs(p) /\ r \notin InUseBehind(p)
        /\ \E i \in 1..(SchedPos(sched, p) - 1) : \E a \in 1..Len(irn[sched[i]].ins) :
              /\ irn[irn[sched[i]].ins[a]].cls = ClassOf(p)
              /\ irn[irn[sched[i]].ins[a]].reg \notin InUseAt(p)

\* C24: a register recorded as free for a Perm is the register of none of
\* the Perm's Projs; so when a cycle was lowered with the scratch register,
\* the save copy (the first node emitted for the cycle) is in a register
\* that is neither the register of a Proj the Perm had when the walker
\* reached it, nor written by a node emitted for another Move of the Perm.
C24_FreeRegisterIsNoProjRegister ==
    /\ FreeMapFresh =>
          \A e \in free_register_map.map : e[2] \notin ProjRegs(e[1])
    /\ Lowered =>
          \A j \in ScratchCycles :
              LET save == irn[moves[j].lo].reg
              IN  /\ save = ScratchOf(cur)
                  /\ \A q \in Users(pushed.g, cur) : pushed.g[q].reg # save
                  /\ \A j2 \in 1..Len(moves) : \A x \in moves[j2].lo..moves[j2].hi :
                        j2 # j => irn[x].reg # save

\* A register is recorded as free for a Perm with a Proj that has no user
\* and whose register is below the recorded one and no input register.
C24_Witness ==
    /\ FreeMapFresh
    /\ \E e \in free_register_map.map : \E q \in Users(irn, e[1]) :
          /\ Users(irn, q) = {}
          /\ irn[q].reg < e[2]
          /\ irn[q].reg \notin InputRegs(e[1])

\* C25 as stated: a run of lower_nodes_after_ra begins with
\* assure_constraints, so when the search for free registers starts every
\* value that must differ from an operand has its copy in front and its
\* keep.
C25_RunAssuresConstraintsFirst ==
    pc = "find" =>
        \A c \in Constrained(snap.g, snap.s) :
            \E cpy, keep \in 1..Len(irn) :
                CopyInFront(cpy, c) /\ KeepsCopyAnd(keep, cpy, c)

\* C25: lower_nodes_after_ra does not run assure_constraints: the search
\* for free registers works on the code as the run found it, and no state
\* of a run holds a Keep, a CopyKeep, a dont_spill Copy or an entry of the
\* constraint environment.
C25_RunDoesNotAssureConstraints ==
    /\ pc = "find" => (irn = snap.g /\ sched = snap.s)
    /\ \A n \in 1..Len(irn) :
          /\ ~be_is_CopyKeep(irn, n)
          /\ ~be_is_Keep(irn, n)
          /\ "dont_spill" \notin irn[n].flags
    /\ cenv = {}

\* A run on a block with a value that must differ from an operand has
\* lowered the Perm and ended.
C25_Witness ==
    /\ pc = "done"
    /\ run = 1
    /\ Constrained(snap.g, snap.s) # {}
    /\ AllPerms(snap.g) # {}
    /\ irn # snap.g

\* What the search for free registers records for the Perms ps of the code
\* the run began with.
SearchResult(ps) ==
    {e \in ps \X Regs :
        e[2] = find_free_register(snap.g, snap.s, eorder, LiveEnd(snap.g, snap.s),
                                  allocatable, e[1], snap.g[snap.g[e[1]].ins[1]].cls)}

InLoweringWalk == pc \in {"walk", "pushed", "loop", "lowered"}

\* C26: in a run of lower_nodes_after_ra the free-register map is
\* initialised before the search; the search runs on the code the run began
\* with and has visited every Perm of it before a Perm is pushed through or
\* lowered; the lowering walk does not write the map, which holds what the
\* search found on the unchanged code all along; the map is destroyed and
\* the liveness sets are invalidated when the run ends.
C26_SearchBeforeLowering ==
    /\ pc = "find" =>
          /\ free_register_map.init
          /\ irn = snap.g /\ sched = snap.s /\ visited = {}
          /\ todo \subseteq AllPerms(snap.g)
          /\ free_register_map.map = SearchResult(AllPerms(snap.g) \ todo)
    /\ InLoweringWalk =>
          /\ free_register_map.init
          /\ todo = {}
          /\ free_register_map.map = SearchResult(AllPerms(snap.g))
    /\ pc = "done" =>
          /\ ~free_register_map.init
          /\ free_register_map.map = {}
          /\ ~lv.valid

\* A run on code with two Perms has searched both and lowered one of them.
C26_Witness ==
    /\ Lowered
    /\ Cardinality(AllPerms(snap.g)) >= 2
    /\ todo = {}
    /\ visited # {}

\* No two pairs of the list read the same register and no two write the
\* same register.
DistinctRegisters(ps) ==
    \A i, j \in 1..Len(ps) :
        i # j => (ps[i].in_reg # ps[j].in_reg /\ ps[i].out_reg # ps[j].out_reg)

\* C27: on a pair list with pairwise distinct input registers and pairwise
\* distinct output registers both walks of get_perm_move_info end within
\* n_pairs steps, the call marks the pair the loop of lower_perm_node took
\* it from and so leaves fewer unchecked pairs than it found, and the loop
\* has made at most n_pairs Moves when no pair is unchecked.
C27_LoweringLoopTerminates ==
    (pc \in {"loop", "lowered"} /\ DistinctRegisters(pairs)) =>
        /\ Len(moves) + get_n_unchecked_pairs(pairs) <= Len(pairs)
        /\ AtMoveCall =>
              /\ NextMove.ok
              /\ NextMove.pairs[FirstUnchecked(pairs)].checked
              /\ \A i \in 1..Len(pairs) : pairs[i].checked => NextMove.pairs[i].checked
              /\ get_n_unchecked_pairs(NextMove.pairs) < get_n_unchecked_pairs(pairs)

\* The loop is at its second Move, after a Move of two pairs whose start
\* was not the pair the loop took first.
C27_Witness ==
    /\ AtMoveCall
    /\ DistinctRegisters(pairs)
    /\ Len(pairs) = 3
    /\ Len(moves) = 1
    /\ Len(moves[1].elems) = 3
    /\ moves[1].elems[1] # pairs[1].in_reg

\* The scheduled dont_spill Copies of d.
NonSpillableCopies(d) ==
    {n \in 1..Len(irn) : /\ be_is_Copy(irn, n)
                         /\ irn[n].ins = <<d>>
                         /\ "dont_spill" \in irn[n].flags
                         /\ sched_is_scheduled(sched, n)}

\* Those of them in front of the instruction at with only Copies between.
CopiesInFront(at, d) ==
    {n \in NonSpillableCopies(d) : CopyInFront(n, [n |-> at, d |-> d])}

\* The Keeps and CopyKeeps the run has created for the copy cpy.
KeepsOf(cpy) ==
    {k \in (Len(snap.g) + 1)..Len(irn) :
        \/ be_is_CopyKeep(irn, k) /\ irn[k].ins[1] = cpy
        \/ be_is_Keep(irn, k) /\ irn[k].ins[2] = cpy}

\* The node created by the run is a Keep or a CopyKeep.
CreatedKeep(k) ==
    k > Len(snap.g) /\ (be_is_CopyKeep(irn, k) \/ be_is_Keep(irn, k))

\* The instructions with a value that must differ from d.
InstructionsDifferingFrom(d) ==
    {skip_Proj(snap.g, c.n) : c \in {x \in Constrained(snap.g, snap.s) : x.d = d}}

\* C28: during and after the block walk of assure_constraints no
\* instruction has two dont_spill Copies of one operand in front of it, and
\* every Keep or CopyKeep the walk created keeps the one copy in front of
\* the instruction whose value it keeps; when the walk has ended, every
\* operand D has one dont_spill Copy per instruction with values that must
\* differ from D, however many values and mask bits asked for it, and
\* that copy has a keep for each of these values.
C28_OneCopyPerOperand ==
    (pc = "ac_walk" \/ AfterBlockWalk) =>
        /\ \A at \in SeqSet(snap.s), d \in 1..Len(irn) :
              Cardinality(CopiesInFront(at, d)) <= 1
        /\ \A k \in 1..Len(irn) :
              CreatedKeep(k) =>
                  LET cpy == irn[k].ins[IF be_is_Keep(irn, k) THEN 2 ELSE 1]
                      n   == irn[k].ins[IF be_is_Keep(irn, k) THEN 1 ELSE 2]
                  IN  /\ be_is_Copy(irn, cpy)
                      /\ CopiesInFront(skip_Proj(irn, n), irn[cpy].ins[1]) = {cpy}
        /\ AfterBlockWalk =>
              /\ \A d \in 1..Len(snap.g) :
                    Cardinality(NonSpillableCopies(d) \ (1..Len(snap.g)))
                        = Cardinality(InstructionsDifferingFrom(d))
              /\ \A c \in Constrained(snap.g, snap.s) :
                    /\ Cardinality(CopiesInFront(skip_Proj(irn, c.n), c.d)) = 1
                    /\ \A cpy \in CopiesInFront(skip_Proj(irn, c.n), c.d) :
                          \E k \in KeepsOf(cpy) : c.n \in SeqSet(irn[k].ins)

\* The block walk has ended; two values of N must differ from the same
\* operand, whose one copy has two keeps and stands in front of the copy of
\* another operand.
C28_Witness ==
    /\ AfterBlockWalk
    /\ run = 1
    /\ \E c1, c2 \in Constrained(snap.g, snap.s) :
          /\ c1.n # c2.n /\ c1.d = c2.d
          /\ \E cpy \in NonSpillableCopies(c1.d), other \in 1..Len(irn) :
                /\ Cardinality(KeepsOf(cpy)) >= 2
                /\ be_is_Copy(irn, other)
                /\ irn[other].ins # <<c1.d>>
                /\ sched_is_scheduled(sched, other)
                /\ SchedPos(sched, cpy) < SchedPos(sched, other)
                /\ SchedPos(sched, other) < SchedPos(sched, skip_Proj(irn, c1.n))

\* melt_copykeeps works on one entry of op_set in this step.
MeltStep == pc = "ac_melt" /\ pc' = "ac_melt" /\ todo' # todo

EntryOf(env, key) == CHOOSE x \in env : x.key = key

CopyKeepsOf(g, copies) == {cp \in copies : be_is_CopyKeep(g, cp)}

\* The node whose value (or Proj) the CopyKeep ck keeps.
Producer(g, ck) == skip_Proj(g, g[ck].ins[2])

\* The CopyKeeps among copies that keep a value of the node t.
Group(g, copies, t) == {ck \in CopyKeepsOf(g, copies) : Producer(g, ck) = t}

KeptValues(g, cks) == UNION {SeqSet(Tail(g[ck].ins)) : ck \in cks}

\* C29 as stated: melt_copykeeps replaces, in every order of the entry's
\* set, each group of two or more CopyKeeps of an entry that keep values of
\* one producer by a single new scheduled CopyKeep of the entry keeping
\* exactly the values the group kept, unschedules and kills every CopyKeep
\* of the group, and leaves the values kept alive by the entry's scheduled
\* CopyKeeps as they were.
C29_MeltReplacesEachGroup ==
    [][MeltStep =>
        LET key == CHOOSE k \in todo : k \notin todo'
            e   == EntryOf(cenv, key)
            e2  == EntryOf(cenv', key)
            cks == CopyKeepsOf(irn, e.copies)
            new == {m \in (Len(irn) + 1)..Len(irn') : be_is_CopyKeep(irn', m)}
        IN  /\ \A t \in {Producer(irn, ck) : ck \in cks} :
                  LET grp == Group(irn, e.copies, t)
                  IN  Cardinality(grp) >= 2 =>
                          /\ \A ck \in grp : /\ irn'[ck].op = "Deleted"
                                             /\ ~sched_is_scheduled(sched', ck)
                                             /\ ck \notin e2.copies
                          /\ Cardinality({m \in new :
                                 /\ m \in e2.copies
                                 /\ sched_is_scheduled(sched', m)
                                 /\ SeqSet(Tail(irn'[m].ins)) = KeptValues(irn, grp)}) = 1
            /\ Cardinality(new) = Cardinality({t \in {Producer(irn, ck) : ck \in cks} :
                                                  Cardinality(Group(irn, e.copies, t)) >= 2})
            /\ KeptValues(irn', {ck \in CopyKeepsOf(irn', e2.copies) :
                                    sched_is_scheduled(sched', ck)})
                   = KeptValues(irn, cks)]_vars

\* C30 as stated: melt_copykeeps leaves a CopyKeep of an entry alone when no
\* other CopyKeep of the entry keeps a value of the same producer: the node
\* is unchanged, scheduled and in the copies of the entry, and no CopyKeep
\* created by the step keeps its value, whatever the order in which the
\* CopyKeeps of the entry are examined.
C30_LoneCopyKeepUntouched ==
    [][MeltStep =>
        LET key == CHOOSE k \in todo : k \notin todo'
            e   == EntryOf(cenv, key)
            e2  == EntryOf(cenv', key)
            cks == CopyKeepsOf(irn, e.copies)
        IN  \A ck \in cks :
                Group(irn, e.copies, Producer(irn, ck)) = {ck} =>
                    /\ irn'[ck] = irn[ck]
                    /\ sched_is_scheduled(sched', ck)
                    /\ ck \in e2.copies
                    /\ \A m \in (Len(irn) + 1)..Len(irn') :
                          irn[ck].ins[2] \notin SeqSet(Tail(irn'[m].ins))]_vars

====
